---- MODULE Spec2Model ----
(***************************************************************************)
(* Model of the Waveshare 4.2" e-paper driver of daily-prioritizer         *)
(* (src/src/waveshare/display.rs).                                         *)
(*                                                                         *)
(* The panel controller `Epd` is straight-line code over three output      *)
(* lines (chip-select, command/data, reset), one input line (busy) and a   *)
(* write-only SPI bus.  Every method is translated into its sequence of    *)
(* hardware steps (drive a line, write to the bus, delay, poll the busy    *)
(* line); a method that calls another one contains the callee's steps.     *)
(* The model executes one hardware step per transition, so that the order  *)
(* of line changes and bus transfers is observable.                        *)
(*                                                                         *)
(* `sink` is what a recording command sink attached to the wires sees of   *)
(* the operation in progress: bus transfers (decoded as the controller decodes  *)
(* them, by the command/data and chip-select levels at the transfer),     *)
(* reset line writes, delays, and the level a busy-wait read when it ended.*)
(*                                                                         *)
(* The canvas `FrameBuffer` is a packed bitmap with drawing methods.  Each *)
(* method is an operator from the buffer to the buffer after the call,     *)
(* computed as the code computes it (u32 / i32 / u8 arithmetic, loops as   *)
(* recursive operators); the model executes one call per transition.       *)
(***************************************************************************)
EXTENDS Naturals, Integers, Sequences, FiniteSets, TLC

VARIABLES
    caller,     \* who drives the controller: "main" (the program) or "client"
    op,         \* Epd method in progress, "idle" between calls, "panic" after an unwrap() failed
    ip,         \* position in the method's step sequence (next step to execute)
    image,      \* the &[u8] argument of the latest display / display_partial call
    hist,       \* methods called on this Epd so far, in call order
    sink,       \* events recorded on the wires during the latest call
    cs_pin,     \* chip-select output level (0 = asserted)
    dc_pin,     \* command/data output level (0 = command, 1 = data)
    reset_pin,  \* hardware reset output level
    busy_pin,   \* level of the busy input at its latest read
    fb,         \* the FrameBuffer: its buffer, width and height
    fb_call,    \* the latest call on the FrameBuffer: method, arguments, number of calls so far
    fb_prev,    \* the buffer as it was before the latest call
    overflow_checks, \* the build panics on integer overflow (debug) or wraps (release)
    line_at,    \* FrameBuffer::line in progress: its arguments and its locals x, y, err
    cal,        \* calculate_free_time: the events passed and the pair returned
    sync,       \* sync_time: its position, retries, the sleeps taken and its result
    boot        \* main (main.rs): the stage reached and the error returned, if any

epd_vars == <<caller, op, ip, image, hist, sink, cs_pin, dc_pin, reset_pin, busy_pin>>

fb_vars == <<fb, fb_call, fb_prev, overflow_checks>>

prog_vars == <<line_at, cal, sync, boot>>

vars == <<caller, op, ip, image, hist, sink, cs_pin, dc_pin, reset_pin, busy_pin,
          fb, fb_call, fb_prev, overflow_checks, line_at, cal, sync, boot>>

----------------------------------------------------------------------------
(* Bounds of the model. *)

\* Methods a client calls on one Epd after constructing it.
MaxCalls == 2
\* Longest caller-provided image buffer, in bytes.
MaxImageLen == 2

\* Byte values the caller-provided image buffers are drawn from.
ImageBytes == {\h00, \h7F, \hFF}

Images == UNION {[1..n -> ImageBytes] : n \in 0..MaxImageLen}

\* Calls made on one FrameBuffer after constructing it.
MaxFbCalls == 2
\* Longest string handed to text, in characters.
MaxTextLen == 2

\* Canvas sizes (width, height), width * height divisible by 8.
FbDims == { <<8, 1>>, <<8, 8>>, <<16, 9>> }

\* Color arguments: BLACK (0x00), WHITE (0x01) and another non-zero value.
Colors == {0, 1, 2}
BlackWhite == {0, 1}

\* Arguments of pixel.
PixelXs == (0..8) \cup {16}
PixelYs == {0, 1, 9}

\* Arguments of hline and vline.
LineStarts == {0, 7}
LineRows == {0, 1}
LineLengths == {0, 2, 8}

\* End points of line.
LineXs == {-1, 0, 2}
LineYs == {-1, 0, 1}

\* Arguments of rect and fill_rect.
RectXs == {1}
RectYs == {0}
RectWidths == {0, 3}
RectHeights == {0, 2}

\* Arguments of text: code points just outside [32, 128) and the letter A.
TextChars == {31, 65, 128}
TextStrings == UNION {[1..n -> TextChars] : n \in 0..MaxTextLen}
TextXs == {1}
TextYs == {0, 1}

----------------------------------------------------------------------------
(* Program constants. *)

POWER_SETTING == \h01
POWER_ON == \h04
DEEP_SLEEP == \h07
DISPLAY_REFRESH == \h12
PLL_CONTROL == \h30

width == 400
height == 300

\* Lookup table for display waveforms.
LUT_ALL ==
    <<
       \h01, \h0A, \h1B, \h0F, \h03, \h01, \h01,
       \h05, \h0A, \h01, \h0A, \h01, \h01, \h01,
       \h05, \h08, \h03, \h02, \h04, \h01, \h01,
       \h01, \h04, \h04, \h02, \h00, \h01, \h01,
       \h01, \h00, \h00, \h00, \h00, \h01, \h01,
       \h01, \h00, \h00, \h00, \h00, \h01, \h01,
       \h01, \h0A, \h1B, \h0F, \h03, \h01, \h01,
       \h05, \h4A, \h01, \h8A, \h01, \h01, \h01,
       \h05, \h48, \h03, \h82, \h84, \h01, \h01,
       \h01, \h84, \h84, \h82, \h00, \h01, \h01,
       \h01, \h00, \h00, \h00, \h00, \h01, \h01,
       \h01, \h00, \h00, \h00, \h00, \h01, \h01,
       \h01, \h0A, \h1B, \h8F, \h03, \h01, \h01,
       \h05, \h4A, \h01, \h8A, \h01, \h01, \h01,
       \h05, \h48, \h83, \h82, \h04, \h01, \h01,
       \h01, \h04, \h04, \h02, \h00, \h01, \h01,
       \h01, \h00, \h00, \h00, \h00, \h01, \h01,
       \h01, \h00, \h00, \h00, \h00, \h01, \h01,
       \h01, \h8A, \h1B, \h8F, \h03, \h01, \h01,
       \h05, \h4A, \h01, \h8A, \h01, \h01, \h01,
       \h05, \h48, \h83, \h02, \h04, \h01, \h01,
       \h01, \h04, \h04, \h02, \h00, \h01, \h01,
       \h01, \h00, \h00, \h00, \h00, \h01, \h01,
       \h01, \h00, \h00, \h00, \h00, \h01, \h01,
       \h01, \h8A, \h9B, \h8F, \h03, \h01, \h01,
       \h05, \h4A, \h01, \h8A, \h01, \h01, \h01,
       \h05, \h48, \h03, \h42, \h04, \h01, \h01,
       \h01, \h04, \h04, \h42, \h00, \h01, \h01,
       \h01, \h00, \h00, \h00, \h00, \h01, \h01,
       \h01, \h00, \h00, \h00, \h00, \h01, \h01,
       \h00, \h00, \h00, \h00, \h00, \h00, \h00,
       \h00, \h00, \h00, \h00, \h00, \h00, \h00,
       \h02, \h00, \h00, \h07, \h17, \h41, \hA8,
       \h32, \h30
    >>

----------------------------------------------------------------------------
(* Hardware steps.  f is the method the step belongs to, s its position in  *)
(* that method.                                                            *)

SetPin(f, s, pin, level) ==
    [f |-> f, s |-> s, k |-> "pin", pin |-> pin, v |-> level, bytes |-> <<>>]

SpiWrite(f, s, bytes) ==
    [f |-> f, s |-> s, k |-> "spi", pin |-> "", v |-> 0, bytes |-> bytes]

DelayMs(f, s, ms) ==
    [f |-> f, s |-> s, k |-> "delay", pin |-> "", v |-> ms, bytes |-> <<>>]

\* `while pin.is_<level>() { delay }`: read the input, loop while it reads `level`.
PollWhile(f, s, level) ==
    [f |-> f, s |-> s, k |-> "poll", pin |-> "busy", v |-> level, bytes |-> <<>>]

----------------------------------------------------------------------------
(* Epd methods as step sequences. *)

\* Variant of reset: the line is pulled low and never released.
reset_no_release ==
    << SetPin("reset", 1, "reset", 1),
       DelayMs("reset", 2, 100),
       SetPin("reset", 3, "reset", 0),
       DelayMs("reset", 4, 2) >>

reset ==
    << SetPin("reset", 1, "reset", 1),
       DelayMs("reset", 2, 100),
       SetPin("reset", 3, "reset", 0),
       DelayMs("reset", 4, 2),
       SetPin("reset", 5, "reset", 1),
       DelayMs("reset", 6, 100) >>

send_command(command) ==
    << SetPin("send_command", 1, "dc", 0),
       SetPin("send_command", 2, "cs", 0),
       SpiWrite("send_command", 3, <<command>>),
       SetPin("send_command", 4, "cs", 1) >>

\* Variant of send_data: chip-select is asserted before the command/data
\* line is set.
send_data_select_first(data) ==
    << SetPin("send_data", 1, "cs", 0),
       SetPin("send_data", 2, "dc", 1),
       SpiWrite("send_data", 3, <<data>>),
       SetPin("send_data", 4, "cs", 1) >>

send_data(data) ==
    << SetPin("send_data", 1, "dc", 1),
       SetPin("send_data", 2, "cs", 0),
       SpiWrite("send_data", 3, <<data>>),
       SetPin("send_data", 4, "cs", 1) >>

\* Variant of send_data_bulk: the transfer stops one byte before the end of
\* the slice.
send_data_bulk_drops_last(data) ==
    << SetPin("send_data_bulk", 1, "dc", 1),
       SetPin("send_data_bulk", 2, "cs", 0),
       SpiWrite("send_data_bulk", 3,
                SubSeq(data, 1, IF Len(data) = 0 THEN 0 ELSE Len(data) - 1)),
       SetPin("send_data_bulk", 4, "cs", 1) >>

send_data_bulk(data) ==
    << SetPin("send_data_bulk", 1, "dc", 1),
       SetPin("send_data_bulk", 2, "cs", 0),
       SpiWrite("send_data_bulk", 3, data),
       SetPin("send_data_bulk", 4, "cs", 1) >>

read_busy ==
    << PollWhile("read_busy", 1, 1) >>

turn_on_display ==
    send_command(\h22) \o send_data(\hF7) \o send_command(\h20) \o read_busy

\* Variant of turn_on_display_fast: returns without waiting for the panel.
turn_on_display_fast_nowait ==
    send_command(\h22) \o send_data(\hC7) \o send_command(\h20)

turn_on_display_fast ==
    send_command(\h22) \o send_data(\hC7) \o send_command(\h20) \o read_busy

\* Variant of turn_on_display_partial: sends the full-refresh mode byte.
turn_on_display_partial_full ==
    send_command(\h22) \o send_data(\hF7) \o send_command(\h20) \o read_busy

turn_on_display_partial ==
    send_command(\h22) \o send_data(\hFF) \o send_command(\h20) \o read_busy

turn_on_display_4gray ==
    send_command(\h22) \o send_data(\hCF) \o send_command(\h20) \o read_busy

\* Variant of new: power-on is sent before the PLL is configured.
new_power_on_first ==
    send_command(POWER_SETTING)
    \o send_command(POWER_ON)
    \o send_command(PLL_CONTROL) \o send_data(\h3C)

new ==
    send_command(POWER_SETTING)
    \o send_command(PLL_CONTROL) \o send_data(\h3C)
    \o send_command(POWER_ON)

\* Variant of init: returns without the final busy-wait.
init_no_final_wait ==
    reset
    \o read_busy
    \o send_command(DISPLAY_REFRESH)
    \o read_busy
    \o send_command(\h21) \o send_data(\h40) \o send_data(\h00)
    \o send_command(\h3C) \o send_data(\h05)
    \o send_command(\h11) \o send_data(\h03)
    \o send_command(\h44) \o send_data(\h00) \o send_data(\h31)
    \o send_command(\h45) \o send_data(\h00) \o send_data(\h00)
                          \o send_data(\h2B) \o send_data(\h01)
    \o send_command(\h4E) \o send_data(\h00)
    \o send_command(\h4F) \o send_data(\h00) \o send_data(\h00)

\* Variant of init: the X window ends one byte column past the panel.
init_window_too_wide ==
    reset
    \o read_busy
    \o send_command(DISPLAY_REFRESH)
    \o read_busy
    \o send_command(\h21) \o send_data(\h40) \o send_data(\h00)
    \o send_command(\h3C) \o send_data(\h05)
    \o send_command(\h11) \o send_data(\h03)
    \o send_command(\h44) \o send_data(\h00) \o send_data(\h32)
    \o send_command(\h45) \o send_data(\h00) \o send_data(\h00)
                          \o send_data(\h2B) \o send_data(\h01)
    \o send_command(\h4E) \o send_data(\h00)
    \o send_command(\h4F) \o send_data(\h00) \o send_data(\h00)
    \o read_busy

init ==
    reset
    \o read_busy
    \o send_command(DISPLAY_REFRESH)
    \o read_busy
    \o send_command(\h21) \o send_data(\h40) \o send_data(\h00)
    \o send_command(\h3C) \o send_data(\h05)
    \o send_command(\h11) \o send_data(\h03)
    \o send_command(\h44) \o send_data(\h00) \o send_data(\h31)
    \o send_command(\h45) \o send_data(\h00) \o send_data(\h00)
                          \o send_data(\h2B) \o send_data(\h01)
    \o send_command(\h4E) \o send_data(\h00)
    \o send_command(\h4F) \o send_data(\h00) \o send_data(\h00)
    \o read_busy

\* for i in lo..hi { self.send_data(LUT_ALL[i]) } (i counts from 0).
\* The steps of the calls laid end to end: step j belongs to the call for
\* i = lo + (j - 1) \div n, where n is the number of steps of one send_data.
send_lut_range(lo, hi) ==
    LET n == Len(send_data(0))
    IN  [j \in 1..(n * (hi - lo)) |->
            send_data(LUT_ALL[lo + ((j - 1) \div n) + 1])[((j - 1) % n) + 1]]

\* Variant of lut: the first segment stops one byte short.
lut_first_segment_short ==
    send_command(\h32) \o send_lut_range(0, 226)
    \o send_command(\h3F) \o send_data(LUT_ALL[227 + 1])
    \o send_command(\h03) \o send_data(LUT_ALL[228 + 1])
    \o send_command(\h04) \o send_data(LUT_ALL[229 + 1])
                          \o send_data(LUT_ALL[230 + 1])
                          \o send_data(LUT_ALL[231 + 1])
    \o send_command(\h2C) \o send_data(LUT_ALL[232 + 1])

lut ==
    send_command(\h32) \o send_lut_range(0, 227)
    \o send_command(\h3F) \o send_data(LUT_ALL[227 + 1])
    \o send_command(\h03) \o send_data(LUT_ALL[228 + 1])
    \o send_command(\h04) \o send_data(LUT_ALL[229 + 1])
                          \o send_data(LUT_ALL[230 + 1])
                          \o send_data(LUT_ALL[231 + 1])
    \o send_command(\h2C) \o send_data(LUT_ALL[232 + 1])

\* Variant of clear: the buffer is built from the black fill pattern.
clear_black ==
    LET linewidth == IF width % 8 = 0 THEN width \div 8 ELSE width \div 8 + 1
        buf_size == height * linewidth
        white_buf == [i \in 1..buf_size |-> \h00]
    IN  send_command(\h24) \o send_data_bulk(white_buf)
        \o send_command(\h26) \o send_data_bulk(white_buf)
        \o turn_on_display

\* Variant of clear: every row is given one byte of padding.
clear_padded_rows ==
    LET linewidth == width \div 8 + 1
        buf_size == height * linewidth
        white_buf == [i \in 1..buf_size |-> \hFF]
    IN  send_command(\h24) \o send_data_bulk(white_buf)
        \o send_command(\h26) \o send_data_bulk(white_buf)
        \o turn_on_display

\* The display buffer size in bytes.
buffer_size == (width * height) \div 8

clear ==
    LET linewidth == IF width % 8 = 0 THEN width \div 8 ELSE width \div 8 + 1
        buf_size == height * linewidth
        white_buf == [i \in 1..buf_size |-> \hFF]
    IN  send_command(\h24) \o send_data_bulk(white_buf)
        \o send_command(\h26) \o send_data_bulk(white_buf)
        \o turn_on_display

\* Variant of display: the second plane misses the last byte of the image.
display_truncated(img) ==
    send_command(\h24) \o send_data_bulk(img)
    \o send_command(\h26)
    \o send_data_bulk(SubSeq(img, 1, IF Len(img) = 0 THEN 0 ELSE Len(img) - 1))
    \o turn_on_display

display(img) ==
    send_command(\h24) \o send_data_bulk(img)
    \o send_command(\h26) \o send_data_bulk(img)
    \o turn_on_display

\* Variant of display_partial: the RAM window is restated after the write
\* to RAM has been opened, and with a shorter Y range.
display_partial_window_late(img) ==
    send_command(\h3C) \o send_data(\h80)
    \o send_command(\h21) \o send_data(\h00) \o send_data(\h00)
    \o send_command(\h3C) \o send_data(\h80)
    \o send_command(\h4E) \o send_data(\h00)
    \o send_command(\h4F) \o send_data(\h00) \o send_data(\h00)
    \o send_command(\h24) \o send_data_bulk(img)
    \o send_command(\h44) \o send_data(\h00) \o send_data(\h31)
    \o send_command(\h45) \o send_data(\h00) \o send_data(\h00)
                          \o send_data(\h2A) \o send_data(\h01)
    \o turn_on_display_partial

display_partial(img) ==
    send_command(\h3C) \o send_data(\h80)
    \o send_command(\h21) \o send_data(\h00) \o send_data(\h00)
    \o send_command(\h3C) \o send_data(\h80)
    \o send_command(\h44) \o send_data(\h00) \o send_data(\h31)
    \o send_command(\h45) \o send_data(\h00) \o send_data(\h00)
                          \o send_data(\h2B) \o send_data(\h01)
    \o send_command(\h4E) \o send_data(\h00)
    \o send_command(\h4F) \o send_data(\h00) \o send_data(\h00)
    \o send_command(\h24) \o send_data_bulk(img)
    \o turn_on_display_partial

\* Variant of sleep: waits on the busy line after the deep-sleep command.
sleep_waits_busy ==
    send_command(DEEP_SLEEP) \o send_data(\h01)
    \o read_busy
    \o << DelayMs("sleep", 3, 2000) >>

sleep ==
    send_command(DEEP_SLEEP) \o send_data(\h01)
    \o << DelayMs("sleep", 3, 2000) >>

\* The steps of method o called with image buffer img.
Body(o, img) ==
    CASE o = "new" -> new
      [] o = "init" -> init
      [] o = "clear" -> clear
      [] o = "display" -> display(img)
      [] o = "display_partial" -> display_partial(img)
      [] o = "turn_on_display_fast" -> turn_on_display_fast
      [] o = "turn_on_display_4gray" -> turn_on_display_4gray
      [] o = "sleep" -> sleep
      [] o = "lut" -> lut
      [] o = "send_data_bulk" -> send_data_bulk(img)
      [] o = "send_data" -> send_data(img[Len(hist)])
      [] OTHER -> <<>>

----------------------------------------------------------------------------
(* Callers. *)

\* Variant of main: the panel is cleared before it is initialised.
MainOps_clear_first == <<"new", "clear", "init", "display", "sleep">>

\* Variant of main: the panel is put to sleep before the frame is displayed.
MainOps_sleep_early == <<"new", "init", "clear", "sleep", "display">>

\* The display cycle of main: Epd::new, init, clear, display(fb.buffer()), sleep.
MainOps == <<"new", "init", "clear", "display", "sleep">>

\* Methods open to a client of the driver: the ones main calls, and the
\* public ones no code of the repository calls (#[allow(dead_code)]).  lut,
\* public and uncalled too, is driven by a specification of its own (SpecLut).
ClientOps ==
    {"init", "clear", "display", "sleep",
     "display_partial", "turn_on_display_fast", "turn_on_display_4gray"}

TakesImage(o) == o \in {"display", "display_partial"}

Running == op \notin {"idle", "panic"}

Steps == Body(op, image)

Cur == Steps[ip]

----------------------------------------------------------------------------
(* Events on the wires. *)

Ev(t, v, bytes) == [t |-> t, v |-> v, bytes |-> bytes]

\* What the controller makes of a bus transfer: it latches the bytes as a
\* command or as data by the level of the command/data line, and only while
\* it is selected.
Decode(dc, cs) ==
    IF cs # 0 THEN "unselected" ELSE IF dc = 0 THEN "cmd" ELSE "data"

Cmd(c) == Ev("cmd", 0, <<c>>)
Data(d) == Ev("data", 0, <<d>>)
Bulk(bytes) == Ev("data", 0, bytes)
Rst(level) == Ev("rst", level, <<>>)
Delay(ms) == Ev("delay", ms, <<>>)
Busy(level) == Ev("busy", level, <<>>)

----------------------------------------------------------------------------
(* Machine arithmetic of the FrameBuffer.

   A u32 is held as its 32-bit pattern read as a signed integer (TLC's
   integers are 32 bits wide): 0 .. 2^31-1 stand for themselves and
   a negative n stands for n + 2^32.  An i32 is held as itself.  A byte is a
   number in 0..255. *)

I32Max == 2147483647

\* a < b on u32.
Lt32(a, b) == IF (a >= 0) = (b >= 0) THEN a < b ELSE b < 0

\* a + b on u32: the wrapped sum and whether it overflowed.
u32_add(a, b) ==
    IF a >= 0 /\ b >= 0
    THEN [v |-> IF a > I32Max - b THEN (a - I32Max - 1) + (b - I32Max - 1) ELSE a + b,
          overflow |-> FALSE]
    ELSE IF a < 0 /\ b < 0
    THEN [v |-> IF a >= (-I32Max - 1) - b THEN a + b ELSE (a + I32Max + 1) + (b + I32Max + 1),
          overflow |-> TRUE]
    ELSE [v |-> a + b, overflow |-> a + b >= 0]

\* a - b on u32: the wrapped difference and whether it overflowed.
u32_sub(a, b) ==
    IF (a >= 0) = (b >= 0)
    THEN [v |-> a - b, overflow |-> a < b]
    ELSE IF a >= 0
    THEN [v |-> IF a > I32Max + b THEN (a - I32Max - 1) - (b + I32Max + 1) ELSE a - b,
          overflow |-> TRUE]
    ELSE [v |-> IF a < (-I32Max - 1) + b THEN (a + I32Max + 1) - (b - I32Max - 1) ELSE a - b,
          overflow |-> FALSE]

\* a & b, a | b and !a on u8.
RECURSIVE BitAnd(_, _)
BitAnd(a, b) ==
    IF a = 0 \/ b = 0 THEN 0
    ELSE (a % 2) * (b % 2) + 2 * BitAnd(a \div 2, b \div 2)

RECURSIVE BitOr(_, _)
BitOr(a, b) ==
    IF a = 0 THEN b
    ELSE IF b = 0 THEN a
    ELSE (IF a % 2 = 1 \/ b % 2 = 1 THEN 1 ELSE 0) + 2 * BitOr(a \div 2, b \div 2)

BitNot(a) == 255 - a

\* a >> n and a << n on u8 (n < 8).
Shr(a, n) == a \div (2 ^ n)
Shl(a, n) == (a * (2 ^ n)) % 256

----------------------------------------------------------------------------
(* FrameBuffer.  A method is an operator from the buffer object (self) to the
   object after the call.  A call that panics (integer overflow in a build
   with overflow checks, index out of range) leaves the object marked
   panicked, and the calls after it do not happen. *)

Panic(self) == [self EXCEPT !.panicked = TRUE]

\* The value of a u32 operation r = u32_add / u32_sub inside a method: a
\* build with overflow checks panics on overflow, the other ones wrap.
Overflowed(r) == r.overflow /\ overflow_checks

\* Variant of FrameBuffer::new: one byte is allocated per pixel.
FrameBuffer_new_byte_per_pixel(w, h) ==
    [buffer |-> [i \in 1..(w * h) |-> \hFF],
     width |-> w, height |-> h, panicked |-> FALSE]

FrameBuffer_new(w, h) ==
    [buffer |-> [i \in 1..((w * h) \div 8) |-> \hFF],
     width |-> w, height |-> h, panicked |-> FALSE]

\* Variant of fill: only the color value 1 counts as white.
fill_white_is_one(self, color) ==
    LET fill_byte == IF color = 1 THEN \hFF ELSE \h00
    IN  [self EXCEPT !.buffer = [i \in 1..Len(self.buffer) |-> fill_byte]]

\* Variant of fill: the polarity is inverted.
fill_inverted(self, color) ==
    LET fill_byte == IF color = 0 THEN \hFF ELSE \h00
    IN  [self EXCEPT !.buffer = [i \in 1..Len(self.buffer) |-> fill_byte]]

fill(self, color) ==
    LET fill_byte == IF color = 0 THEN \h00 ELSE \hFF
    IN  [self EXCEPT !.buffer = [i \in 1..Len(self.buffer) |-> fill_byte]]

\* Variant of pixel: no bounds check on x.
pixel_unchecked_x(self, x, y, color) ==
    IF self.panicked THEN self
    ELSE IF ~Lt32(y, self.height) THEN self
    ELSE LET idx == (x + y * self.width) \div 8
             bit == Shr(\h80, x % 8)
         IN  IF idx >= Len(self.buffer) THEN Panic(self)
             ELSE [self EXCEPT !.buffer[idx + 1] =
                      IF color = 0 THEN BitAnd(@, BitNot(bit)) ELSE BitOr(@, bit)]

\* Variant of pixel: bit 0 is the leftmost pixel of a byte.
pixel_lsb_first(self, x, y, color) ==
    IF self.panicked THEN self
    ELSE IF ~Lt32(x, self.width) \/ ~Lt32(y, self.height) THEN self
    ELSE LET idx == (x + y * self.width) \div 8
             bit == Shl(\h01, x % 8)
         IN  IF idx >= Len(self.buffer) THEN Panic(self)
             ELSE [self EXCEPT !.buffer[idx + 1] =
                      IF color = 0 THEN BitAnd(@, BitNot(bit)) ELSE BitOr(@, bit)]

pixel(self, x, y, color) ==
    IF self.panicked THEN self
    ELSE IF ~Lt32(x, self.width) \/ ~Lt32(y, self.height) THEN self
    ELSE LET idx == (x + y * self.width) \div 8
             bit == Shr(\h80, x % 8)
         IN  IF idx >= Len(self.buffer) THEN Panic(self)
             ELSE [self EXCEPT !.buffer[idx + 1] =
                      IF color = 0 THEN BitAnd(@, BitNot(bit)) ELSE BitOr(@, bit)]

\* for i in i..length { self.pixel(x + i, y, color) }
RECURSIVE hline_loop(_, _, _, _, _, _)
hline_loop(self, x, y, length, color, i) ==
    IF self.panicked \/ ~Lt32(i, length) THEN self
    ELSE LET xi == u32_add(x, i)
         IN  IF Overflowed(xi) THEN Panic(self)
             ELSE hline_loop(pixel(self, xi.v, y, color), x, y, length, color, i + 1)

\* Variant of hline: the range is closed, 0..=length.
hline_inclusive(self, x, y, length, color) == hline_loop(self, x, y, length + 1, color, 0)

hline(self, x, y, length, color) == hline_loop(self, x, y, length, color, 0)

\* for i in i..length { self.pixel(x, y + i, color) }
RECURSIVE vline_loop(_, _, _, _, _, _)
vline_loop(self, x, y, length, color, i) ==
    IF self.panicked \/ ~Lt32(i, length) THEN self
    ELSE LET yi == u32_add(y, i)
         IN  IF Overflowed(yi) THEN Panic(self)
             ELSE vline_loop(pixel(self, x, yi.v, color), x, y, length, color, i + 1)

vline(self, x, y, length, color) == vline_loop(self, x, y, length, color, 0)

\* One iteration and the rest of the loop of line, entered at (x, y) with
\* error term err.
RECURSIVE line_loop(_, _, _, _, _, _, _, _, _, _, _)
line_loop(self, x, y, x1, y1, dx, dy, sx, sy, err, color) ==
    IF self.panicked THEN self
    ELSE LET plotted == IF x >= 0 /\ y >= 0 THEN pixel(self, x, y, color) ELSE self
             e2 == 2 * err
             err_x == IF e2 >= dy THEN err + dy ELSE err
             x_next == IF e2 >= dy THEN x + sx ELSE x
             err_y == IF e2 <= dx THEN err_x + dx ELSE err_x
             y_next == IF e2 <= dx THEN y + sy ELSE y
         IN  IF x = x1 /\ y = y1 THEN plotted
             ELSE line_loop(plotted, x_next, y_next, x1, y1, dx, dy, sx, sy, err_y, color)

\* The loop of line with the end test ahead of the plot: the end point is
\* not plotted.
RECURSIVE line_loop_open_end(_, _, _, _, _, _, _, _, _, _, _)
line_loop_open_end(self, x, y, x1, y1, dx, dy, sx, sy, err, color) ==
    IF self.panicked \/ (x = x1 /\ y = y1) THEN self
    ELSE LET plotted == IF x >= 0 /\ y >= 0 THEN pixel(self, x, y, color) ELSE self
             e2 == 2 * err
             err_x == IF e2 >= dy THEN err + dy ELSE err
             x_next == IF e2 >= dy THEN x + sx ELSE x
             err_y == IF e2 <= dx THEN err_x + dx ELSE err_x
             y_next == IF e2 <= dx THEN y + sy ELSE y
         IN  line_loop_open_end(plotted, x_next, y_next, x1, y1, dx, dy, sx, sy, err_y, color)

\* The loop of line with a negative coordinate raised to 0 instead of the
\* point being skipped.
RECURSIVE line_loop_clamped(_, _, _, _, _, _, _, _, _, _, _)
line_loop_clamped(self, x, y, x1, y1, dx, dy, sx, sy, err, color) ==
    IF self.panicked THEN self
    ELSE LET plotted == pixel(self, IF x >= 0 THEN x ELSE 0, IF y >= 0 THEN y ELSE 0, color)
             e2 == 2 * err
             err_x == IF e2 >= dy THEN err + dy ELSE err
             x_next == IF e2 >= dy THEN x + sx ELSE x
             err_y == IF e2 <= dx THEN err_x + dx ELSE err_x
             y_next == IF e2 <= dx THEN y + sy ELSE y
         IN  IF x = x1 /\ y = y1 THEN plotted
             ELSE line_loop_clamped(plotted, x_next, y_next, x1, y1, dx, dy, sx, sy, err_y, color)

Abs(n) == IF n < 0 THEN -n ELSE n

\* Variant of line: points with a negative coordinate are clamped to the
\* canvas edge.
line_clamped(self, x0, y0, x1, y1, color) ==
    LET dx == Abs(x1 - x0)
        dy == -Abs(y1 - y0)
        sx == IF x0 < x1 THEN 1 ELSE -1
        sy == IF y0 < y1 THEN 1 ELSE -1
    IN  line_loop_clamped(self, x0, y0, x1, y1, dx, dy, sx, sy, dx + dy, color)

\* Variant of line: the end point (x1, y1) is left out.
line_open_end(self, x0, y0, x1, y1, color) ==
    LET dx == Abs(x1 - x0)
        dy == -Abs(y1 - y0)
        sx == IF x0 < x1 THEN 1 ELSE -1
        sy == IF y0 < y1 THEN 1 ELSE -1
    IN  line_loop_open_end(self, x0, y0, x1, y1, dx, dy, sx, sy, dx + dy, color)

\* Bresenham's line algorithm.
line(self, x0, y0, x1, y1, color) ==
    LET dx == Abs(x1 - x0)
        dy == -Abs(y1 - y0)
        sx == IF x0 < x1 THEN 1 ELSE -1
        sy == IF y0 < y1 THEN 1 ELSE -1
    IN  line_loop(self, x0, y0, x1, y1, dx, dy, sx, sy, dx + dy, color)

rect(self, x, y, w, h, color) ==
    LET top == hline(self, x, y, w, color)
        yh == u32_add(y, h)
        yh1 == u32_sub(yh.v, 1)
        bottom == IF Overflowed(yh) \/ Overflowed(yh1) THEN Panic(top)
                  ELSE hline(top, x, yh1.v, w, color)
        left == vline(bottom, x, y, h, color)
        xw == u32_add(x, w)
        xw1 == u32_sub(xw.v, 1)
    IN  IF left.panicked THEN left
        ELSE IF Overflowed(xw) \/ Overflowed(xw1) THEN Panic(left)
        ELSE vline(left, xw1.v, y, h, color)

\* for dx in dx..w { self.pixel(x + dx, y + dy, color) }
RECURSIVE fill_rect_row(_, _, _, _, _, _, _)
fill_rect_row(self, x, y, w, color, dy, dx) ==
    IF self.panicked \/ ~Lt32(dx, w) THEN self
    ELSE LET xd == u32_add(x, dx)
             yd == u32_add(y, dy)
         IN  IF Overflowed(xd) \/ Overflowed(yd) THEN Panic(self)
             ELSE fill_rect_row(pixel(self, xd.v, yd.v, color), x, y, w, color, dy, dx + 1)

\* for dy in dy..h { for dx in 0..w { ... } }
RECURSIVE fill_rect_loop(_, _, _, _, _, _, _)
fill_rect_loop(self, x, y, w, h, color, dy) ==
    IF self.panicked \/ ~Lt32(dy, h) THEN self
    ELSE fill_rect_loop(fill_rect_row(self, x, y, w, color, dy, 0),
                        x, y, w, h, color, dy + 1)

fill_rect(self, x, y, w, h, color) == fill_rect_loop(self, x, y, w, h, color, 0)

\* The glyph table (font.rs): 96 glyphs of 8 row bytes for the code points
\* 32..127.  Entry g + 1 is the glyph of code point g + 32; the space is
\* blank and row r of every other glyph is (code point * (r + 1)) mod 256.
FONT ==
    [g \in 1..96 |->
        [r \in 1..8 |-> IF g = 1 THEN \h00 ELSE ((g + 31) * r) % 256]]

\* Variant of the column loop of text: a column whose bit is clear is painted
\* in the opposite color, so the glyph cell is opaque.
RECURSIVE glyph_row_opaque(_, _, _, _, _, _, _)
glyph_row_opaque(self, bits, cx, y, color, row, col) ==
    IF self.panicked \/ col >= 8 THEN self
    ELSE LET xc == u32_add(cx, col)
             yr == u32_add(y, row)
             ink == IF BitAnd(bits, Shl(1, col)) # 0 THEN color
                    ELSE IF color = 0 THEN 1 ELSE 0
         IN  IF Overflowed(xc) \/ Overflowed(yr) THEN Panic(self)
             ELSE glyph_row_opaque(pixel(self, xc.v, yr.v, ink), bits, cx, y, color, row, col + 1)

\* for col in col..8 { if bits & (1 << col) != 0 { self.pixel(cx + col, y + row, color) } }
RECURSIVE glyph_row(_, _, _, _, _, _, _)
glyph_row(self, bits, cx, y, color, row, col) ==
    IF self.panicked \/ col >= 8 THEN self
    ELSE IF BitAnd(bits, Shl(1, col)) # 0
    THEN LET xc == u32_add(cx, col)
             yr == u32_add(y, row)
         IN  IF Overflowed(xc) \/ Overflowed(yr) THEN Panic(self)
             ELSE glyph_row(pixel(self, xc.v, yr.v, color), bits, cx, y, color, row, col + 1)
    ELSE glyph_row(self, bits, cx, y, color, row, col + 1)

\* for (row, &bits) in glyph.iter().enumerate() { for col in 0..8 { ... } }
RECURSIVE glyph_loop(_, _, _, _, _, _)
glyph_loop(self, glyph, cx, y, color, row) ==
    IF self.panicked \/ row >= Len(glyph) THEN self
    ELSE glyph_loop(glyph_row(self, glyph[row + 1], cx, y, color, row, 0),
                    glyph, cx, y, color, row + 1)

\* for ch in s.chars() { ... } from the k-th character on, cursor at cx.
RECURSIVE text_loop(_, _, _, _, _, _)
text_loop(self, s, cx, y, color, k) ==
    IF self.panicked \/ k > Len(s) THEN self
    ELSE LET idx == s[k]
             drawn == IF idx >= 32 /\ idx < 128
                      THEN glyph_loop(self, FONT[idx - 32 + 1], cx, y, color, 0)
                      ELSE self
             cx_next == u32_add(cx, 8)
         IN  IF drawn.panicked THEN drawn
             ELSE IF Overflowed(cx_next) THEN Panic(drawn)
             ELSE text_loop(drawn, s, cx_next.v, y, color, k + 1)

\* The loop of text with the cursor advanced only past a character that has
\* a glyph.
RECURSIVE text_loop_skip(_, _, _, _, _, _)
text_loop_skip(self, s, cx, y, color, k) ==
    IF self.panicked \/ k > Len(s) THEN self
    ELSE LET idx == s[k]
             has_glyph == idx >= 32 /\ idx < 128
             drawn == IF has_glyph
                      THEN glyph_loop(self, FONT[idx - 32 + 1], cx, y, color, 0)
                      ELSE self
             cx_next == IF has_glyph THEN u32_add(cx, 8) ELSE u32_add(cx, 0)
         IN  IF drawn.panicked THEN drawn
             ELSE IF Overflowed(cx_next) THEN Panic(drawn)
             ELSE text_loop_skip(drawn, s, cx_next.v, y, color, k + 1)

\* Variant of text: a character outside [32, 128) does not advance the cursor.
text_skip_unprintable(self, s, x, y, color) == text_loop_skip(self, s, x, y, color, 1)

\* A string is the sequence of the code points of its characters.
text(self, s, x, y, color) == text_loop(self, s, x, y, color, 1)

\* The raw packed bytes.
buffer(self) == self.buffer

----------------------------------------------------------------------------
\* line, calculate_free_time, sync_time and main (main.rs) are not running.
NoLine == [st |-> "idle"]
NoCal == [st |-> "idle"]
NoSync == [st |-> "idle"]
NoBoot == [st |-> "idle"]

ProgIdle ==
    /\ line_at = NoLine
    /\ cal = NoCal
    /\ sync = NoSync
    /\ boot = NoBoot

\* No FrameBuffer has been constructed.
NoFrameBuffer == [buffer |-> <<>>, width |-> 0, height |-> 0, panicked |-> FALSE]

NoCall == [f |-> "none", a |-> <<>>, n |-> 0]

(* Initial state: entry to Epd::new with the handles moved in.  The output  *)
(* lines are fresh PinDriver::output handles that nothing has driven yet   *)
(* (level 0); the busy input has not been read.                            *)

Init ==
    /\ caller \in {"main", "client"}
    /\ op = "new"
    /\ ip = 1
    /\ image = <<>>
    /\ hist = <<"new">>
    /\ sink = <<>>
    /\ cs_pin = 0
    /\ dc_pin = 0
    /\ reset_pin = 0
    /\ busy_pin = 0
    /\ fb = NoFrameBuffer
    /\ fb_call = NoCall
    /\ fb_prev = <<>>
    /\ overflow_checks = TRUE
    /\ ProgIdle

----------------------------------------------------------------------------
(* Actions. *)

\* The caller invokes method o (with buffer img) on the idle controller.
Call(o, img) ==
    /\ op = "idle"
    /\ IF caller = "main"
       THEN Len(hist) < Len(MainOps) /\ o = MainOps[Len(hist) + 1]
       ELSE Len(hist) <= MaxCalls /\ o \in ClientOps
    /\ img \in (IF TakesImage(o) THEN Images ELSE {<<>>})
    /\ op' = o
    /\ ip' = 1
    /\ image' = img
    /\ hist' = Append(hist, o)
    /\ sink' = <<>>
    /\ UNCHANGED <<caller, cs_pin, dc_pin, reset_pin, busy_pin>>
    /\ UNCHANGED fb_vars
    /\ UNCHANGED prog_vars

AtStep(k) == Running /\ ip <= Len(Steps) /\ Cur.k = k

\* pin.set_high() / pin.set_low() succeeded.
SetPinStep ==
    /\ AtStep("pin")
    /\ cs_pin' = IF Cur.pin = "cs" THEN Cur.v ELSE cs_pin
    /\ dc_pin' = IF Cur.pin = "dc" THEN Cur.v ELSE dc_pin
    /\ reset_pin' = IF Cur.pin = "reset" THEN Cur.v ELSE reset_pin
    /\ sink' = IF Cur.pin = "reset" THEN Append(sink, Rst(Cur.v)) ELSE sink
    /\ ip' = ip + 1
    /\ UNCHANGED <<caller, op, image, hist, busy_pin>>
    /\ UNCHANGED fb_vars
    /\ UNCHANGED prog_vars

\* spi.write(bytes) succeeded.
SpiStep ==
    /\ AtStep("spi")
    /\ sink' = Append(sink, Ev(Decode(dc_pin, cs_pin), 0, Cur.bytes))
    /\ ip' = ip + 1
    /\ UNCHANGED <<caller, op, image, hist, cs_pin, dc_pin, reset_pin, busy_pin>>
    /\ UNCHANGED fb_vars
    /\ UNCHANGED prog_vars

\* FreeRtos::delay_ms(ms) outside the busy-wait loop.
DelayStep ==
    /\ AtStep("delay")
    /\ sink' = Append(sink, Delay(Cur.v))
    /\ ip' = ip + 1
    /\ UNCHANGED <<caller, op, image, hist, cs_pin, dc_pin, reset_pin, busy_pin>>
    /\ UNCHANGED fb_vars
    /\ UNCHANGED prog_vars

\* Variant of PollStep: the wait gives up after one poll whatever it read.
PollStep_gives_up ==
    /\ AtStep("poll")
    /\ \E level \in {0, 1} :
        /\ busy_pin' = level
        /\ ip' = ip + 1
        /\ sink' = Append(sink, Busy(level))
    /\ UNCHANGED <<caller, op, image, hist, cs_pin, dc_pin, reset_pin>>
    /\ UNCHANGED fb_vars
    /\ UNCHANGED prog_vars

\* One iteration of read_busy: read the busy line (the panel decides its
\* level); delay 20 ms and loop while it is high, leave the loop otherwise.
PollStep ==
    /\ AtStep("poll")
    /\ \E level \in {0, 1} :
        /\ busy_pin' = level
        /\ IF level = Cur.v
           THEN UNCHANGED <<ip, sink>>
           ELSE /\ ip' = ip + 1
                /\ sink' = Append(sink, Busy(level))
    /\ UNCHANGED <<caller, op, image, hist, cs_pin, dc_pin, reset_pin>>
    /\ UNCHANGED fb_vars
    /\ UNCHANGED prog_vars

\* The method returns to its caller.
Return ==
    /\ Running
    /\ ip = Len(Steps) + 1
    /\ op' = "idle"
    /\ ip' = 0
    /\ UNCHANGED <<caller, image, hist, sink, cs_pin, dc_pin, reset_pin, busy_pin>>
    /\ UNCHANGED fb_vars
    /\ UNCHANGED prog_vars

\* Variant of HwFault: the Err is dropped and the method goes on to its next
\* step.
HwFault_ignored ==
    /\ \/ AtStep("pin")
       \/ AtStep("spi")
    /\ ip' = ip + 1
    /\ UNCHANGED <<caller, op, image, hist, sink, cs_pin, dc_pin, reset_pin, busy_pin>>
    /\ UNCHANGED fb_vars
    /\ UNCHANGED prog_vars

\* A line or bus operation returned Err: unwrap() panics and the process
\* is gone.
HwFault ==
    /\ \/ AtStep("pin")
       \/ AtStep("spi")
    /\ op' = "panic"
    /\ UNCHANGED <<caller, ip, image, hist, sink, cs_pin, dc_pin, reset_pin, busy_pin>>
    /\ UNCHANGED fb_vars
    /\ UNCHANGED prog_vars

Next ==
    \/ \E o \in ClientOps \cup {"new"}, img \in Images : Call(o, img)
    \/ SetPinStep
    \/ SpiStep
    \/ DelayStep
    \/ PollStep
    \/ Return
    \/ HwFault

Spec == Init /\ [][Next]_vars

----------------------------------------------------------------------------
(* A client that loads the waveform table: Epd::new, then lut(). *)

CallLut ==
    /\ op = "idle"
    /\ hist = <<"new">>
    /\ op' = "lut"
    /\ ip' = 1
    /\ hist' = Append(hist, "lut")
    /\ sink' = <<>>
    /\ UNCHANGED <<caller, image, cs_pin, dc_pin, reset_pin, busy_pin>>
    /\ UNCHANGED fb_vars
    /\ UNCHANGED prog_vars

InitLut == Init /\ caller = "client"

NextLut ==
    \/ CallLut
    \/ SetPinStep
    \/ SpiStep
    \/ Return
    \/ HwFault

SpecLut == InitLut /\ [][NextLut]_vars

----------------------------------------------------------------------------
(* Properties. *)

IsPrefix(s, t) == Len(s) <= Len(t) /\ SubSeq(t, 1, Len(s)) = s

LastCall == hist[Len(hist)]

\* The latest call ran to its return.
Returned(o) == op = "idle" /\ LastCall = o

\* While o runs its sink is a prefix of golden; when it has returned the sink
\* is golden exactly.
Emits(o, golden) ==
    LastCall = o => /\ IsPrefix(sink, golden)
                    /\ op = "idle" => sink = golden

InitGolden ==
    << Rst(1), Delay(100), Rst(0), Delay(2), Rst(1), Delay(100),
       Busy(0),
       Cmd(\h12), Busy(0),
       Cmd(\h21), Data(\h40), Data(\h00),
       Cmd(\h3C), Data(\h05),
       Cmd(\h11), Data(\h03),
       Cmd(\h44), Data(\h00), Data(\h31),
       Cmd(\h45), Data(\h00), Data(\h00), Data(\h2B), Data(\h01),
       Cmd(\h4E), Data(\h00),
       Cmd(\h4F), Data(\h00), Data(\h00),
       Busy(0) >>

\* C1: init() puts on the wires exactly the documented sequence, in order and
\* nothing else: the reset pulse, busy-wait, software reset 0x12, busy-wait,
\* 0x21 (0x40, 0x00), 0x3C (0x05), 0x11 (0x03), 0x44 (0x00, 0x31),
\* 0x45 (0x00, 0x00, 0x2B, 0x01), 0x4E (0x00), 0x4F (0x00, 0x00), busy-wait.
C1_InitGoldenSequence == Emits("init", InitGolden)

C1_Witness == Returned("init") /\ Len(sink) = 30 /\ sink[30] = Busy(0)

FullRefresh == << Cmd(\h22), Data(\hF7), Cmd(\h20), Busy(0) >>

DisplayGolden(img) ==
    << Cmd(\h24), Bulk(img), Cmd(\h26), Bulk(img) >> \o FullRefresh

\* C2: display(buffer) sends 0x24 followed by exactly the buffer's bytes in
\* order, then 0x26 followed by exactly the same bytes, then the full-refresh
\* trigger; the caller's buffer is the one that was sent (unchanged).
C2_DisplaySendsBufferTwice == Emits("display", DisplayGolden(image))

C2_Witness ==
    /\ Returned("display")
    /\ Len(image) = MaxImageLen
    /\ image[1] # image[MaxImageLen]
    /\ sink[4].bytes = image

\* Positions of the sink holding command opcode c.
At(c) == {i \in 1..Len(sink) : sink[i] = Cmd(c)}

\* Every command c in the sink that has been followed by something has been
\* followed by event e.
FollowedBy(c, e) == \A i \in At(c) : i < Len(sink) => sink[i + 1] = e

\* C3: display_partial(buffer) writes the buffer to the primary RAM plane
\* only (0x24, never 0x26) and its update-control-2 transaction carries mode
\* byte 0xFF, where display(buffer) sends 0xF7.
C3_PartialPrimaryPlaneOnly ==
    /\ LastCall = "display_partial" =>
        /\ At(\h26) = {}
        /\ FollowedBy(\h24, Bulk(image))
        /\ FollowedBy(\h22, Data(\hFF))
        /\ op = "idle" => Cardinality(At(\h24)) = 1 /\ Cardinality(At(\h22)) = 1
    /\ LastCall = "display" =>
        /\ FollowedBy(\h22, Data(\hF7))
        /\ op = "idle" => Cardinality(At(\h22)) = 1

C3_Witness ==
    /\ Returned("display_partial")
    /\ Len(image) > 0
    /\ \E i \in At(\h22) : sink[i + 1] = Data(\hFF)

\* Methods that end in a refresh trigger, and the mode the claim gives each.
TriggerOps ==
    {"clear", "display", "display_partial",
     "turn_on_display_fast", "turn_on_display_4gray"}

ModeByte(o) ==
    CASE o \in {"clear", "display"} -> \hF7
      [] o = "turn_on_display_fast" -> \hC7
      [] o = "display_partial" -> \hFF
      [] o = "turn_on_display_4gray" -> \hCF

TriggerGolden(o) == << Cmd(\h22), Data(ModeByte(o)), Cmd(\h20), Busy(0) >>

\* C4: every refresh trigger emits exactly 0x22, one mode byte (0xF7 full,
\* 0xC7 fast, 0xFF partial, 0xCF four-gray, pairwise distinct), 0x20, then a
\* busy-wait; it returns only with the busy line read deasserted after master
\* activation, and nothing is sent between master activation and that read.
C4_RefreshTrigger ==
    LastCall \in TriggerOps =>
        LET n == Len(sink)
            T == TriggerGolden(LastCall)
        IN  /\ \A i \in At(\h22) : IsPrefix(SubSeq(sink, i, n), T)
            /\ \A i \in At(\h20) : i >= 3 /\ SubSeq(sink, i - 2, i) = SubSeq(T, 1, 3)
            /\ op = "idle" =>
                /\ n >= 4
                /\ SubSeq(sink, n - 3, n) = T
                /\ busy_pin = 0
            /\ Cardinality({ModeByte(o) : o \in TriggerOps}) = 4

C4_Witness ==
    /\ Returned("turn_on_display_4gray")
    /\ sink = << Cmd(\h22), Data(\hCF), Cmd(\h20), Busy(0) >>

\* C5: clear() builds an all-0xFF buffer of height * ceil(width/8) bytes
\* (15000 for the 400x300 panel), writes that same buffer to both RAM planes
\* (0x24 then 0x26) and triggers a full refresh (mode 0xF7).
C5_ClearWhiteBothPlanes ==
    LET white == [i \in 1..15000 |-> \hFF]
    IN  /\ Emits("clear", << Cmd(\h24), Bulk(white), Cmd(\h26), Bulk(white) >>
                           \o FullRefresh)
        /\ 15000 = height * ((width + 7) \div 8)

C5_Witness ==
    /\ Returned("clear")
    /\ Len(sink) = 8
    /\ Len(sink[2].bytes) = 15000
    /\ sink[4] = sink[2]

PowerOnGolden == << Cmd(\h01), Cmd(\h30), Data(\h3C), Cmd(\h04) >>

\* C6: the power-on sequence (0x01 with no data, 0x30 with the data byte
\* 0x3C, then 0x04) is emitted in that order, and is complete before any
\* reset pulse or init transaction occurs on the controller.
C6_PowerOnFirst ==
    /\ hist[1] = "new"
    /\ \A i \in 2..Len(hist) : hist[i] # "new"
    /\ Emits("new", PowerOnGolden)
    /\ LastCall = "new" => reset_pin = 0 /\ busy_pin = 0
    /\ \A i \in 1..Len(sink) : sink[i].t = "rst" => LastCall = "init"

C6_Witness ==
    /\ LastCall = "init"
    /\ Len(hist) = 2
    /\ sink = << Rst(1) >>

ResetGolden == << Rst(1), Delay(100), Rst(0), Delay(2), Rst(1), Delay(100) >>

\* A reset pulse starts at position p of the sink: as far as the sink goes,
\* it holds the pulse and then the end of a busy-wait.
PulseAt(p) ==
    /\ p >= 1
    /\ \A j \in 1..7 : p + j - 1 <= Len(sink) =>
          sink[p + j - 1] = (ResetGolden \o << Busy(0) >>)[j]

SleepGolden == << Cmd(\h07), Data(\h01), Delay(2000) >>

\* C8: sleep() emits the deep-sleep opcode 0x07 followed by exactly one data
\* byte (0x01), then holds for a fixed settle delay, and never polls the busy
\* line.
C8_SleepNoBusyWait ==
    /\ Emits("sleep", SleepGolden)
    /\ LastCall = "sleep" =>
        /\ busy_pin = 0
        /\ Running /\ ip <= Len(Steps) => Cur.k # "poll"

C8_Witness ==
    /\ Returned("sleep")
    /\ caller = "client"
    /\ sink = SleepGolden

BusEvents == {"cmd", "data", "unselected"}

\* C9 as claimed: once sleep() has been issued, nothing is sent to the
\* controller until a fresh reset (init) has been performed.
C9_SleepTerminalForAnyCaller ==
    \A i \in 1..(Len(hist) - 1) :
        (hist[i] = "sleep" /\ \A j \in (i + 1)..Len(hist) : hist[j] # "init")
            => \A k \in 1..Len(sink) : sink[k].t \notin BusEvents

\* C9 (amended): in the display cycle of main, sleep() is the last call on
\* the controller: once it has been issued no other method is called, and
\* once it has returned nothing more happens on the wires.
C9_SleepLastInMain ==
    caller = "main" =>
        /\ \A i \in 1..Len(hist) : hist[i] = "sleep" => i = Len(hist)
        /\ LastCall = "sleep" => IsPrefix(sink, SleepGolden)
        /\ Returned("sleep") => ~ENABLED Next

C9_Witness ==
    /\ caller = "main"
    /\ Returned("sleep")
    /\ hist = <<"new", "init", "clear", "display", "sleep">>

SendFns == {"send_command", "send_data", "send_data_bulk"}

\* The level of the command/data line a send method selects.
DcLevel(f) == IF f = "send_command" THEN 0 ELSE 1

\* The controller is inside a bus transaction: chip-select has been asserted
\* by a send_* call that has not returned.
\* (A panic inside the call leaves the line where the failed step found it.)
InTransaction ==
    LET frame == Body(LastCall, image)
    IN  /\ op # "idle"
        /\ ip <= Len(frame)
        /\ frame[ip].f \in SendFns
        /\ frame[ip].s \in {3, 4}

\* Some send_* call has returned (the first one is the first of Epd::new).
SendReturned == Len(hist) > 1 \/ op = "idle" \/ ip > 4

Transferred ==
    /\ Len(sink') = Len(sink) + 1
    /\ sink'[Len(sink')].t \in BusEvents

\* C10: every bus transaction sets the command/data line first (low for
\* send_command, high for send_data and send_data_bulk), then asserts
\* chip-select, then transfers the bytes (exactly one for send_command and
\* send_data), then deasserts chip-select; chip-select is deasserted
\* whenever a send_* call has returned, and the command/data line never
\* changes while chip-select is asserted.
C10_BusTransactionProtocol ==
    /\ [](InTransaction => cs_pin = 0)
    /\ [](SendReturned /\ ~InTransaction => cs_pin = 1)
    /\ [][dc_pin' # dc_pin => cs_pin = 1 /\ cs_pin' = 1]_vars
    /\ [][(cs_pin = 1 /\ cs_pin' = 0) =>
            Cur.f \in SendFns /\ dc_pin = DcLevel(Cur.f)]_vars
    /\ [][Transferred =>
            LET e == sink'[Len(sink')]
            IN  /\ cs_pin = 0 /\ cs_pin' = 0
                /\ Cur.f \in SendFns
                /\ e.t = (IF Cur.f = "send_command" THEN "cmd" ELSE "data")
                /\ Cur.f \in {"send_command", "send_data"} => Len(e.bytes) = 1]_vars
    /\ [][(cs_pin = 0 /\ cs_pin' = 1) =>
            sink # <<>> /\ sink[Len(sink)].t \in BusEvents]_vars

C10_Witness ==
    /\ op = "display"
    /\ InTransaction
    /\ Cur.f = "send_data_bulk"
    /\ Cur.s = 4
    /\ cs_pin = 0
    /\ dc_pin = 1

----------------------------------------------------------------------------
(* The two ways a method body hands a slice to the controller: one
   send_data_bulk(bytes), or send_data(b) for each byte b of bytes in order
   (the k-th call sends image[k]).  Both follow a send_command or a send_data,
   which leave chip-select released and the command/data line low or high.
   The sink accumulates over the calls. *)

InitSend ==
    /\ caller \in {"bulk", "bytewise"}
    /\ op = "idle"
    /\ ip = 0
    /\ image \in Images
    /\ hist = <<>>
    /\ sink = <<>>
    /\ cs_pin = 1
    /\ dc_pin \in {0, 1}
    /\ reset_pin = 1
    /\ busy_pin = 0
    /\ fb = NoFrameBuffer
    /\ fb_call = NoCall
    /\ fb_prev = <<>>
    /\ overflow_checks = TRUE
    /\ ProgIdle

CallSendBulk ==
    /\ caller = "bulk"
    /\ op = "idle"
    /\ hist = <<>>
    /\ op' = "send_data_bulk"
    /\ ip' = 1
    /\ hist' = <<"send_data_bulk">>
    /\ UNCHANGED <<caller, image, sink, cs_pin, dc_pin, reset_pin, busy_pin>>
    /\ UNCHANGED fb_vars
    /\ UNCHANGED prog_vars

CallSendData ==
    /\ caller = "bytewise"
    /\ op = "idle"
    /\ Len(hist) < Len(image)
    /\ op' = "send_data"
    /\ ip' = 1
    /\ hist' = Append(hist, "send_data")
    /\ UNCHANGED <<caller, image, sink, cs_pin, dc_pin, reset_pin, busy_pin>>
    /\ UNCHANGED fb_vars
    /\ UNCHANGED prog_vars

NextSend ==
    \/ CallSendBulk
    \/ CallSendData
    \/ SetPinStep
    \/ SpiStep
    \/ Return
    \/ HwFault

SpecSend == InitSend /\ [][NextSend]_vars

----------------------------------------------------------------------------
(* A program that draws: FrameBuffer::new(width, height), then calls of the
   drawing methods.  A call takes two steps: the method runs (atomically: the
   buffer is owned by one thread), then it returns and its arguments and the
   buffer it started from are forgotten.  The controller is not driven. *)

InitFB ==
    /\ caller = "client"
    /\ op = "idle"
    /\ ip = 0
    /\ image = <<>>
    /\ hist = <<>>
    /\ sink = <<>>
    /\ cs_pin = 0
    /\ dc_pin = 0
    /\ reset_pin = 0
    /\ busy_pin = 0
    /\ \E d \in FbDims :
        /\ fb = FrameBuffer_new(d[1], d[2])
        /\ fb_call = [f |-> "new", a |-> d, n |-> 0]
    /\ fb_prev = <<>>
    /\ overflow_checks \in BOOLEAN
    /\ ProgIdle

\* The call f(a) on the buffer, which leaves it as after.
FbCall(f, a, after) ==
    /\ ~fb.panicked
    /\ fb_call.f \in {"new", "none"}
    /\ fb_call.n < MaxFbCalls
    /\ fb' = after
    /\ fb_call' = [f |-> f, a |-> a, n |-> fb_call.n + 1]
    /\ fb_prev' = fb.buffer
    /\ UNCHANGED overflow_checks
    /\ UNCHANGED epd_vars
    /\ UNCHANGED prog_vars

Fill == \E c \in Colors : FbCall("fill", <<c>>, fill(fb, c))

Pixel ==
    \E x \in PixelXs, y \in PixelYs, c \in Colors :
        FbCall("pixel", <<x, y, c>>, pixel(fb, x, y, c))

HLine ==
    \E x \in LineStarts, y \in LineRows, n \in LineLengths, c \in BlackWhite :
        FbCall("hline", <<x, y, n, c>>, hline(fb, x, y, n, c))

VLine ==
    \E x \in LineStarts, y \in LineRows, n \in LineLengths, c \in BlackWhite :
        FbCall("vline", <<x, y, n, c>>, vline(fb, x, y, n, c))

Line ==
    \E x0 \in LineXs, y0 \in LineYs, x1 \in LineXs, y1 \in LineYs, c \in BlackWhite :
        FbCall("line", <<x0, y0, x1, y1, c>>, line(fb, x0, y0, x1, y1, c))

Rect ==
    \E x \in RectXs, y \in RectYs, w \in RectWidths, h \in RectHeights, c \in BlackWhite :
        FbCall("rect", <<x, y, w, h, c>>, rect(fb, x, y, w, h, c))

FillRect ==
    \E x \in RectXs, y \in RectYs, w \in RectWidths, h \in RectHeights, c \in BlackWhite :
        FbCall("fill_rect", <<x, y, w, h, c>>, fill_rect(fb, x, y, w, h, c))

Text ==
    \E s \in TextStrings, x \in TextXs, y \in TextYs, c \in BlackWhite :
        FbCall("text", <<s, x, y, c>>, text(fb, s, x, y, c))

\* The method returns to its caller.
FbReturn ==
    /\ ~fb.panicked
    /\ fb_call.f \notin {"new", "none"}
    /\ fb_call' = [f |-> "none", a |-> <<>>, n |-> fb_call.n]
    /\ fb_prev' = <<>>
    /\ UNCHANGED <<fb, overflow_checks>>
    /\ UNCHANGED epd_vars
    /\ UNCHANGED prog_vars

NextFB ==
    \/ FbReturn
    \/ Fill
    \/ Pixel
    \/ HLine
    \/ VLine
    \/ Line
    \/ Rect
    \/ FillRect
    \/ Text

SpecFB == InitFB /\ [][NextFB]_vars

----------------------------------------------------------------------------
(* Properties of lut and of the send methods. *)

\* The bytes of the log's single-byte events of kind t, in order.
BytesOf(log, t) ==
    LET sel == SelectSeq(log, LAMBDA e : e.t = t)
    IN  [i \in 1..Len(sel) |-> sel[i].bytes[1]]

LutOpcodes == << \h32, \h3F, \h03, \h04, \h2C >>

\* Position in the finished sink of the opcode of segment k, given the
\* segment lengths 227, 1, 1, 3, 1.
LutSegmentAt == << 1, 229, 231, 233, 237 >>

\* C12: lut() transmits the 233-byte table byte-exact and in order as five
\* segments of lengths 227, 1, 1, 3, 1 written to the opcodes 0x32, 0x3F,
\* 0x03, 0x04, 0x2C in order: the data bytes emitted, concatenated, are
\* LUT_ALL (every index once), and nothing else is emitted.
C12_LutByteExact ==
    LastCall = "lut" =>
        /\ Len(LUT_ALL) = 233
        /\ IsPrefix(BytesOf(sink, "data"), LUT_ALL)
        /\ IsPrefix(BytesOf(sink, "cmd"), LutOpcodes)
        /\ \A i \in 1..Len(sink) :
            /\ sink[i].t \in {"cmd", "data"}
            /\ Len(sink[i].bytes) = 1
            /\ sink[i].t = "cmd" <=> \E k \in 1..5 : LutSegmentAt[k] = i
        /\ op = "idle" =>
            /\ Len(sink) = 238
            /\ BytesOf(sink, "data") = LUT_ALL
            /\ BytesOf(sink, "cmd") = LutOpcodes

C12_Witness ==
    /\ Returned("lut")
    /\ sink[229] = Cmd(\h3F)
    /\ sink[238] = Data(\h30)

----------------------------------------------------------------------------
(* Waiting and failing. *)

\* C13: the busy-wait has no timeout and no cancellation.  A step taken at the
\* poll leaves the loop if and only if it read the busy line low; a step that
\* read it high stays at the same poll of the same operation, which has not
\* returned, and no later operation is issued.
C13_BusyWaitNoTimeout ==
    [][AtStep("poll") =>
        /\ (ip' = ip + 1) <=> (busy_pin' = 0)
        /\ busy_pin' = 1 => UNCHANGED <<op, ip, sink>>
        /\ op' = op
        /\ hist' = hist]_vars

C13_Witness ==
    /\ caller = "main"
    /\ op = "init"
    /\ AtStep("poll")
    /\ busy_pin = 1

\* C14: a failed bus transfer or line operation is fatal.  A step at a bus or
\* line operation either performs it and moves on, or fails: a failure leaves
\* the operation at the failing step with nothing emitted, and from then on
\* nothing changes (no later transaction, no retry).
C14_FailureIsFatal ==
    [][LET p == IF AtStep("pin") THEN Cur.pin ELSE "none"
           v == IF AtStep("pin") THEN Cur.v ELSE 0
           bytes == IF AtStep("spi") THEN Cur.bytes ELSE <<>>
       IN  /\ op # "panic"
           /\ op' = "panic" =>
                /\ AtStep("pin") \/ AtStep("spi")
                /\ UNCHANGED <<ip, hist, sink, cs_pin, dc_pin, reset_pin>>
           /\ AtStep("spi") /\ op' # "panic" =>
                /\ ip' = ip + 1
                /\ Len(sink') = Len(sink) + 1
                /\ sink'[Len(sink')].bytes = bytes
           /\ AtStep("pin") /\ op' # "panic" =>
                /\ ip' = ip + 1
                /\ p = "cs" => cs_pin' = v
                /\ p = "dc" => dc_pin' = v
                /\ p = "reset" => reset_pin' = v]_vars

C14_Witness ==
    /\ op = "panic"
    /\ LastCall = "display"
    /\ Len(sink) = 2
    /\ Body("display", image)[ip].k = "spi"

----------------------------------------------------------------------------
(* send_data_bulk against send_data. *)

\* The whole slice has been handed over and the last call has returned.
SendDone ==
    /\ op = "idle"
    /\ IF caller = "bulk" THEN hist = <<"send_data_bulk">>
                          ELSE Len(hist) = Len(image)

\* The data bytes the controller latched, in order.
RECURSIVE Received(_)
Received(log) ==
    IF log = <<>> THEN <<>>
    ELSE (IF Head(log).t = "data" THEN Head(log).bytes ELSE <<>>)
         \o Received(Tail(log))

\* What both ways of sending have to agree on once they are done: the
\* controller latched the slice, all of it as data, and the lines are left
\* where send_data_bulk leaves them (chip-select released, command/data high).
SameEffect ==
    /\ Received(sink) = image
    /\ \A i \in 1..Len(sink) : sink[i].t = "data"
    /\ cs_pin = 1
    /\ dc_pin = 1

\* C11 as stated: for every slice, the empty one included, the two ways of
\* sending have the same effect and leave the lines in the same state.
C11_BulkEqualsBytewiseEverySlice == SendDone => SameEffect

\* C11: for every non-empty slice, send_data_bulk(bytes) and send_data(b) for
\* each b of bytes in order give the controller the same data bytes in the
\* same order at the data level and leave the lines in the same state.  For
\* the empty slice send_data_bulk still raises the command/data line, while
\* no send_data call is made and the line stays as it was.
C11_BulkEqualsBytewiseNonEmpty == SendDone /\ image # <<>> => SameEffect

C11_Witness ==
    /\ SendDone
    /\ caller = "bytewise"
    /\ Len(image) = 2
    /\ sink = << Data(image[1]), Data(image[2]) >>

----------------------------------------------------------------------------
(* Properties of the FrameBuffer. *)

\* The latest call on the buffer was f.
Called(f) == fb_call.f = f

\* Bit k (0 = least significant) of a byte.
TestBit(byte, k) == (byte \div (2 ^ k)) % 2

\* The bit that holds pixel (x, y) in a buffer of the canvas' width.
PixelBit(buf, x, y) ==
    TestBit(buf[((x + y * fb.width) \div 8) + 1], 7 - (x % 8))

InBounds == {p \in (0..(fb.width - 1)) \X (0..(fb.height - 1)) : TRUE}

AllBytes(buf, b) == \A i \in 1..Len(buf) : buf[i] = b

\* C15: pixel(x, y, c) with x < width and y < height changes at most the bit
\* 0x80 >> (x mod 8) of the byte at index (x + y*width)/8, leaves that bit
\* cleared when c is 0 and set otherwise, and leaves every other bit of the
\* buffer as it was; with x >= width or y >= height the buffer is unchanged.
C15_PixelSingleBit ==
    Called("pixel") =>
        LET x == fb_call.a[1]
            y == fb_call.a[2]
            c == fb_call.a[3]
            idx == (x + y * fb.width) \div 8
        IN  /\ ~fb.panicked
            /\ Len(fb.buffer) = Len(fb_prev)
            /\ IF x < fb.width /\ y < fb.height
               THEN /\ \A i \in 1..Len(fb.buffer) :
                        i # idx + 1 => fb.buffer[i] = fb_prev[i]
                    /\ \A k \in 0..7 :
                        k # 7 - (x % 8) =>
                            TestBit(fb.buffer[idx + 1], k) = TestBit(fb_prev[idx + 1], k)
                    /\ TestBit(fb.buffer[idx + 1], 7 - (x % 8)) = IF c = 0 THEN 0 ELSE 1
               ELSE fb.buffer = fb_prev

C15_Witness ==
    /\ Called("pixel")
    /\ fb_call.a = <<3, 1, 2>>
    /\ fb.width = 16
    /\ fb_prev[3] = \h00
    /\ fb.buffer[3] = \h10

\* C16: for a width divisible by 8 the buffer has width*height/8 bytes, from
\* construction on and after every sequence of drawing calls.
C16_BufferLength ==
    fb.width % 8 = 0 => Len(fb.buffer) = (fb.width * fb.height) \div 8

C16_Witness ==
    /\ Called("text")
    /\ fb_call.n = 2
    /\ fb.width = 16
    /\ fb.buffer # fb_prev
    /\ Len(fb.buffer) = 18

\* C17: a freshly constructed buffer is all 0xFF; fill(white) leaves every
\* byte 0xFF and fill(black) leaves every byte 0x00, whatever the buffer held
\* before.
C17_NewAndFill ==
    /\ Called("new") => AllBytes(fb.buffer, \hFF)
    /\ Called("fill") /\ fb_call.a = <<1>> => AllBytes(fb.buffer, \hFF)
    /\ Called("fill") /\ fb_call.a = <<0>> => AllBytes(fb.buffer, \h00)
    /\ Called("fill") => Len(fb.buffer) = Len(fb_prev)

C17_Witness ==
    /\ Called("fill")
    /\ fb_call.a = <<1>>
    /\ \E i \in 1..Len(fb_prev) : fb_prev[i] \notin {\h00, \hFF}
    /\ AllBytes(fb.buffer, \hFF)

\* The buffer object as it was before the latest call.
Before == [fb EXCEPT !.buffer = fb_prev]

\* The latest call was line(x0, y0, x1, y1, c) and left the buffer as the
\* call in the other direction, line(x1, y1, x0, y0, c), would have.
SameAsReversed ==
    LET a == fb_call.a
    IN  fb = line(Before, a[3], a[4], a[1], a[2], a[5])

\* C18 as stated: for all end points, a line and the line in the other
\* direction plot the same set of pixels.
C18_LineDirectionIndependent == Called("line") => SameAsReversed

\* The segment is horizontal, vertical or an exact diagonal.
Straight(a) ==
    \/ a[1] = a[3]
    \/ a[2] = a[4]
    \/ Abs(a[3] - a[1]) = Abs(a[4] - a[2])

\* C18: for end points on one row, on one column or on an exact diagonal
\* (|x1 - x0| = |y1 - y0|), line(x0,y0,x1,y1,c) and line(x1,y1,x0,y0,c) applied
\* to equal buffers yield equal buffers.  For the other slopes the error term
\* breaks ties differently in the two directions.
C18_StraightLineDirectionIndependent ==
    Called("line") /\ Straight(fb_call.a) => SameAsReversed

C18_Witness ==
    /\ Called("line")
    /\ fb_call.a = <<2, 1, -1, 1, 0>>
    /\ fb.width = 8 /\ fb.height = 8
    /\ fb_prev[2] = \hFF
    /\ fb.buffer[2] = \h1F

\* Character k (from 1) of the string has a glyph and pixel (px, py) lies in
\* its cell: columns x + 8(k-1) .. x + 8(k-1) + 7, rows y .. y + 7.
InCell(s, x, y, k, px, py) ==
    /\ s[k] >= 32 /\ s[k] < 128
    /\ x + 8 * (k - 1) <= px /\ px <= x + 8 * (k - 1) + 7
    /\ y <= py /\ py <= y + 7

\* C19: text(s, x, y, c) plots only for characters with a code point in
\* [32, 128), and every character advances the cursor by 8: a pixel changes
\* only if it lies in the 8x8 cell at columns x+8k .. x+8k+7, rows y .. y+7 of
\* a k-th character (from 0) that is in range.
C19_TextCells ==
    Called("text") =>
        LET s == fb_call.a[1]
            x == fb_call.a[2]
            y == fb_call.a[3]
        IN  /\ ~fb.panicked
            /\ Len(fb.buffer) = Len(fb_prev)
            /\ \A p \in InBounds :
                PixelBit(fb.buffer, p[1], p[2]) # PixelBit(fb_prev, p[1], p[2])
                    => \E k \in 1..Len(s) : InCell(s, x, y, k, p[1], p[2])

C19_Witness ==
    /\ Called("text")
    /\ fb_call.a = << <<128, 65>>, 1, 1, 0 >>
    /\ fb.width = 16
    /\ fb.buffer # fb_prev
    /\ \A i \in 1..Len(fb.buffer) : i % 2 = 1 => fb.buffer[i] = fb_prev[i]

\* The 8x8 scenario: the buffer was constructed and filled white.
ScenarioFilled ==
    /\ Called("fill")
    /\ fb_call.a = <<1>>
    /\ fb_call.n = 1
    /\ fb.width = 8 /\ fb.height = 8

\* The 8x8 scenario: pixel(0, 0, black) on the white buffer.
ScenarioPixel ==
    /\ Called("pixel")
    /\ fb_call.a = <<0, 0, 0>>
    /\ fb_call.n = 2
    /\ AllBytes(fb_prev, \hFF)
    /\ fb.width = 8 /\ fb.height = 8

\* C20 as stated: the 8x8 buffer is the single byte 0xFF after fill(white)
\* and the single byte 0x7F after pixel(0, 0, black).
C20_ScenarioOneByte ==
    /\ ScenarioFilled => fb.buffer = << \hFF >>
    /\ ScenarioPixel => fb.buffer = << \h7F >>

\* C20: an 8x8 buffer has 8 bytes; constructed and filled white they are all
\* 0xFF, and after pixel(0, 0, black) the first is 0x7F and the other seven
\* are 0xFF.
C20_ScenarioEightBytes ==
    /\ ScenarioFilled =>
        fb.buffer = << \hFF, \hFF, \hFF, \hFF, \hFF, \hFF, \hFF, \hFF >>
    /\ ScenarioPixel =>
        fb.buffer = << \h7F, \hFF, \hFF, \hFF, \hFF, \hFF, \hFF, \hFF >>

C20_Witness ==
    /\ ScenarioPixel
    /\ fb.buffer[1] = \h7F
    /\ Len(fb.buffer) = 8

----------------------------------------------------------------------------
(* Segments, boxes and glyphs. *)

\* The bit that marks a pixel of color c.
ColorBit(c) == IF c = 0 THEN 0 ELSE 1

\* The latest call gave color c to exactly the in-bounds pixels of the set
\* region and left every other pixel as it was.
Painted(region, c) ==
    \A p \in InBounds :
        PixelBit(fb.buffer, p[1], p[2]) =
            IF p \in region THEN ColorBit(c) ELSE PixelBit(fb_prev, p[1], p[2])

\* C21: hline(x, y, length, c) gives color c to exactly the in-bounds pixels
\* (x+i, y) and vline(x, y, length, c) to exactly the in-bounds pixels
\* (x, y+i), 0 <= i < length; positions out of bounds are skipped without a
\* failure and every other pixel is unchanged.  On a white 8x1 buffer
\* hline(0, 0, 8, black) leaves the single byte 0x00.
C21_AxisLines ==
    /\ Called("hline") =>
        LET a == fb_call.a
        IN  /\ ~fb.panicked
            /\ Painted({p \in InBounds : p[2] = a[2] /\ a[1] <= p[1] /\ p[1] < a[1] + a[3]},
                       a[4])
    /\ Called("vline") =>
        LET a == fb_call.a
        IN  /\ ~fb.panicked
            /\ Painted({p \in InBounds : p[1] = a[1] /\ a[2] <= p[2] /\ p[2] < a[2] + a[3]},
                       a[4])
    /\ Called("hline") /\ fb_call.a = <<0, 0, 8, 0>> /\ fb_prev = << \hFF >>
        => fb.buffer = << \h00 >>

C21_Witness ==
    /\ Called("hline")
    /\ fb_call.a = <<0, 0, 8, 0>>
    /\ fb_call.n = 2
    /\ fb_prev = << \hFF >>
    /\ fb.buffer = << \h00 >>

\* Row r (from 0) of the glyph of code point ch.
GlyphRow(ch, r) == FONT[ch - 32 + 1][r + 1]

\* C22 as stated: a glyph row is drawn with bit 7 leftmost.  After
\* text(s, x, y, c) with one printable character, the pixel at column x + k of
\* glyph row r has color c if bit 7-k of the row's byte is set and is
\* unchanged if it is clear.
C22_GlyphBit7Leftmost ==
    Called("text") /\ Len(fb_call.a[1]) = 1
    /\ fb_call.a[1][1] >= 32 /\ fb_call.a[1][1] < 128 =>
        LET ch == fb_call.a[1][1]
            x == fb_call.a[2]
            y == fb_call.a[3]
            c == fb_call.a[4]
        IN  \A k \in 0..7, r \in 0..7 :
                <<x + k, y + r>> \in InBounds =>
                    PixelBit(fb.buffer, x + k, y + r) =
                        IF TestBit(GlyphRow(ch, r), 7 - k) = 1
                        THEN ColorBit(c)
                        ELSE PixelBit(fb_prev, x + k, y + r)

\* The points Bresenham's algorithm visits from (x, y) to (x1, y1), the
\* negative ones included.
RECURSIVE BresenhamFrom(_, _, _, _, _, _, _, _, _)
BresenhamFrom(x, y, x1, y1, dx, dy, sx, sy, err) ==
    IF x = x1 /\ y = y1 THEN {<<x, y>>}
    ELSE LET e2 == 2 * err
             stepx == e2 >= dy
             stepy == e2 <= dx
         IN  {<<x, y>>} \cup
             BresenhamFrom(IF stepx THEN x + sx ELSE x, IF stepy THEN y + sy ELSE y,
                           x1, y1, dx, dy, sx, sy,
                           err + (IF stepx THEN dy ELSE 0) + (IF stepy THEN dx ELSE 0))

BresenhamPoints(x0, y0, x1, y1) ==
    BresenhamFrom(x0, y0, x1, y1, Abs(x1 - x0), -Abs(y1 - y0),
                  IF x0 < x1 THEN 1 ELSE -1, IF y0 < y1 THEN 1 ELSE -1,
                  Abs(x1 - x0) - Abs(y1 - y0))

\* C23: line gives the color to exactly the Bresenham points that lie on the
\* canvas; a point with a negative coordinate is skipped, never moved onto the
\* canvas, so a line whose points all have a negative coordinate leaves the
\* buffer as it was.
C23_LineSkipsNegativePoints ==
    Called("line") =>
        LET a == fb_call.a
            pts == BresenhamPoints(a[1], a[2], a[3], a[4])
        IN  /\ ~fb.panicked
            /\ Painted({p \in pts : p[1] >= 0 /\ p[2] >= 0}, a[5])
            /\ (\A p \in pts : p[1] < 0 \/ p[2] < 0) => fb.buffer = fb_prev

\* A line from (-1, 0) to (0, -1) in black on a white canvas: both of its
\* points are off the canvas and the canvas is still white.
C23_Witness ==
    /\ Called("line")
    /\ fb_call.a = <<-1, 0, 0, -1, 0>>
    /\ fb_call.n = 2
    /\ fb_prev = <<\hFF>>
    /\ fb.buffer = <<\hFF>>

\* The pixels of the box [x, x+w) x [y, y+h).
Box(x, y, w, h) ==
    {p \in InBounds : x <= p[1] /\ p[1] < x + w /\ y <= p[2] /\ p[2] < y + h}

\* The pixels on the four edges of that box.
Perimeter(x, y, w, h) ==
    {p \in Box(x, y, w, h) :
        p[1] = x \/ p[1] = x + w - 1 \/ p[2] = y \/ p[2] = y + h - 1}

\* C24: fill_rect gives the color to exactly the pixels of the box, rect to
\* exactly the pixels of its perimeter, neither changes another pixel, and
\* neither fails; for an empty box (w = 0 or h = 0) both sets are empty, so
\* the buffer stays as it was.
C24_RectAndFillRect ==
    /\ Called("fill_rect") =>
           /\ ~fb.panicked
           /\ Painted(Box(fb_call.a[1], fb_call.a[2], fb_call.a[3], fb_call.a[4]), fb_call.a[5])
    /\ Called("rect") =>
           /\ ~fb.panicked
           /\ Painted(Perimeter(fb_call.a[1], fb_call.a[2], fb_call.a[3], fb_call.a[4]), fb_call.a[5])

----------------------------------------------------------------------------
(* The display cycle and the panel geometry. *)

\* The opcodes that open a write to the two RAM planes.
WriteRam == {Cmd(\h24), Cmd(\h26)}

\* C25: in the display cycle of main the controller methods are called in
\* the order new, init, clear, display, sleep; no write-RAM opcode (0x24,
\* 0x26) is on the wires unless init has returned before the call that sends
\* it, init is called at most once, and the deep-sleep transaction is the
\* last one: when sleep has returned nothing further is sent.
C25_DisplayCycleOrder ==
    caller = "main" =>
        /\ IsPrefix(hist, <<"new", "init", "clear", "display", "sleep">>)
        /\ \A i \in 1..Len(hist), j \in 1..Len(hist) :
               hist[i] = "init" /\ hist[j] = "init" => i = j
        /\ \A k \in 1..Len(sink) :
               sink[k] \in WriteRam =>
                   \E i \in 1..(Len(hist) - 1) : hist[i] = "init"
        /\ Returned("sleep") =>
               /\ SubSeq(sink, 1, 2) = <<Cmd(DEEP_SLEEP), Data(\h01)>>
               /\ \A k \in 3..Len(sink) : sink[k].t \notin BusEvents
               /\ ~ENABLED Next

\* main's clear has put the first write-RAM opcode on the wires, after init
\* had returned.
C25_Witness ==
    /\ caller = "main"
    /\ hist = <<"new", "init", "clear">>
    /\ op = "clear"
    /\ sink # <<>> /\ sink[Len(sink)] = Cmd(\h24)

\* The data bytes that follow position i of a wire log, up to the next event
\* that is not a data transfer.
RECURSIVE DataFrom(_, _)
DataFrom(log, i) ==
    IF i > Len(log) \/ log[i].t # "data" THEN <<>>
    ELSE log[i].bytes \o DataFrom(log, i + 1)

\* The data of every transaction of a wire log that opens with opcode c.
Transactions(log, c) ==
    {DataFrom(log, i + 1) : i \in {k \in 1..Len(log) : log[k] = Cmd(c)}}

\* A 16-bit value as the controller takes it: low byte first.
LowHigh(n) == <<n % 256, n \div 256>>

\* C26: the window and counter bytes init sends are the geometry of the
\* 400x300 panel: X window (0x44) from byte column 0 to width/8 - 1 = 0x31,
\* Y window (0x45) from row 0 to height - 1 = 0x012B, each 16-bit value low
\* byte first, and both address counters (0x4E, 0x4F) at the origin 0.
C26_InitWindowIsPanelGeometry ==
    Returned("init") =>
        /\ Transactions(sink, \h44) = {<<0, (width \div 8) - 1>>}
        /\ Transactions(sink, \h45) = {LowHigh(0) \o LowHigh(height - 1)}
        /\ Transactions(sink, \h4E) = {<<0>>}
        /\ Transactions(sink, \h4F) = {LowHigh(0)}
        /\ width = 400 /\ height = 300 /\ width % 8 = 0

\* init has returned with the Y window transaction 0x45 0x00 0x00 0x2B 0x01
\* on the wires.
C26_Witness ==
    /\ Returned("init")
    /\ <<\h00, \h00, \h2B, \h01>> \in Transactions(sink, \h45)
    /\ <<\h00, \h31>> \in Transactions(sink, \h44)

\* The bus transfers a run of the given steps puts on the wires.
Wire(steps) ==
    LET spi == SelectSeq(steps, LAMBDA st : st.k = "spi")
    IN  [i \in 1..Len(spi) |->
            Ev(IF spi[i].f = "send_command" THEN "cmd" ELSE "data", 0, spi[i].bytes)]

Opcodes(log) == {log[k].bytes[1] : k \in {j \in 1..Len(log) : log[j].t = "cmd"}}

WindowOpcodes == {\h44, \h45, \h4E, \h4F}

\* C27: when display_partial has returned, every opcode it sent ahead of the
\* write-RAM opcode 0x24 is one init sends too, its RAM window (0x44, 0x45)
\* and address counter (0x4E, 0x4F) transactions carry the same bytes as
\* init's, and each of them was sent before 0x24.  (init's transfers are the
\* ones seen on the wires when init has returned.)
C27_PartialRestatesInit ==
    /\ Returned("init") =>
           SelectSeq(sink, LAMBDA e : e.t \in BusEvents) = Wire(init)
    /\ Returned("display_partial") =>
        LET at24 == {k \in 1..Len(sink) : sink[k] = Cmd(\h24)}
            before == SubSeq(sink, 1, (CHOOSE k \in at24 : \A j \in at24 : k <= j) - 1)
        IN  /\ at24 # {}
            /\ Opcodes(before) \subseteq Opcodes(Wire(init))
            /\ \A c \in WindowOpcodes :
                   /\ Transactions(sink, c) # {}
                   /\ Transactions(sink, c) = Transactions(Wire(init), c)
                   /\ Transactions(before, c) = Transactions(sink, c)
                   /\ \A k \in 1..Len(sink) : sink[k] = Cmd(c) => k <= Len(before)

\* display_partial has returned; among what it sent are the border opcode
\* 0x3C and the Y window 0x45 0x00 0x00 0x2B 0x01, ahead of 0x24.
C27_Witness ==
    /\ Returned("display_partial")
    /\ sink[1] = Cmd(\h3C)
    /\ \E k \in 1..Len(sink) :
           /\ sink[k] = Cmd(\h45)
           /\ DataFrom(sink, k + 1) = <<\h00, \h00, \h2B, \h01>>
           /\ \E j \in (k + 1)..Len(sink) : sink[j] = Cmd(\h24)

----------------------------------------------------------------------------
(* Polarity, addressing and payload sizes. *)

\* pixel(x, y, c) for x = from .. width - 1 in row y.
RECURSIVE PixelRow(_, _, _, _)
PixelRow(self, x, y, c) ==
    IF x >= self.width THEN self
    ELSE PixelRow(pixel(self, x, y, c), x + 1, y, c)

\* pixel(x, y, c) for every in-bounds (x, y), row by row from row y on.
RECURSIVE PixelEvery(_, _, _)
PixelEvery(self, y, c) ==
    IF y >= self.height THEN self
    ELSE PixelEvery(PixelRow(self, 0, y, c), y + 1, c)

\* The buffer clear() sends to each RAM plane.
ClearBuffer ==
    LET bulk == SelectSeq(clear, LAMBDA st : st.k = "spi" /\ st.f = "send_data_bulk")
    IN  bulk[1].bytes

\* A canvas of the panel's size after fill(WHITE), WHITE = 0x01.
PanelFilledWhite == fill(FrameBuffer_new(width, height), 1)

ClearEqualsFillWhite == ClearBuffer = buffer(PanelFilledWhite)

\* C28: fill and pixel agree on the polarity of every color value: on a
\* canvas whose width is divisible by 8, fill(c) leaves the buffer that
\* pixel(x, y, c) called for every in-bounds (x, y) leaves; and the buffer
\* clear() sends is the buffer of a panel-sized canvas after fill(white).
C28_FillAgreesWithPixel ==
    /\ Called("fill") /\ fb.width % 8 = 0 =>
           fb = PixelEvery(Before, 0, fb_call.a[1])
    /\ ClearEqualsFillWhite

\* fill(2) on a canvas holding a drawing: every pixel is white, as after
\* pixel(x, y, 2) everywhere.
C28_Witness ==
    /\ Called("fill")
    /\ fb_call.a = <<2>>
    /\ fb.width = 16
    /\ \E i \in 1..Len(fb_prev) : fb_prev[i] \notin {\h00, \hFF}
    /\ fb.buffer = PixelEvery(Before, 0, 2).buffer
    /\ AllBytes(fb.buffer, \hFF)

\* Canvas sizes FrameBuffer::new accepts, among them widths that are not a
\* multiple of 8.
AnyDims == { <<3, 3>>, <<4, 2>>, <<8, 2>>, <<12, 2>>, <<16, 2>> }

\* FrameBuffer::new(w, h) for any of these sizes.
InitFBAny ==
    /\ caller = "client"
    /\ op = "idle"
    /\ ip = 0
    /\ image = <<>>
    /\ hist = <<>>
    /\ sink = <<>>
    /\ cs_pin = 0
    /\ dc_pin = 0
    /\ reset_pin = 0
    /\ busy_pin = 0
    /\ \E d \in AnyDims :
        /\ fb = FrameBuffer_new(d[1], d[2])
        /\ fb_call = [f |-> "new", a |-> d, n |-> 0]
    /\ fb_prev = <<>>
    /\ overflow_checks \in BOOLEAN
    /\ ProgIdle

\* pixel(x, y, c) at any point of the canvas, or just off its right or lower
\* edge.
PixelAny ==
    \E x \in 0..fb.width, y \in 0..fb.height, c \in BlackWhite :
        FbCall("pixel", <<x, y, c>>, pixel(fb, x, y, c))

NextFBAny ==
    \/ PixelAny
    \/ FbReturn

SpecFBAny == InitFBAny /\ [][NextFBAny]_vars

\* The byte index and the bit mask pixel computes for (x, y).
pixel_idx(self, x, y) == (x + y * self.width) \div 8

pixel_bit(x) == Shr(\h80, x % 8)

BytesPerRow == (fb.width + 7) \div 8

\* C29: on a canvas of any size FrameBuffer::new accepts, pixel never reaches
\* outside the buffer, every in-bounds (x, y) is addressed at a byte index
\* below the buffer length and inside the ceil(width/8) bytes of row y, two
\* distinct in-bounds pixels never have the same byte and bit, and a call
\* of pixel changes the bit of its own pixel only.
C29_PixelAddressingInjective ==
    /\ ~fb.panicked
    /\ \A p \in InBounds :
           /\ pixel_idx(fb, p[1], p[2]) < Len(fb.buffer)
           /\ pixel_idx(fb, p[1], p[2]) \div BytesPerRow = p[2]
    /\ \A p \in InBounds, q \in InBounds :
           p # q => <<pixel_idx(fb, p[1], p[2]), pixel_bit(p[1])>> #
                    <<pixel_idx(fb, q[1], q[2]), pixel_bit(q[1])>>
    /\ Called("pixel") /\ <<fb_call.a[1], fb_call.a[2]>> \in InBounds =>
           LET idx == pixel_idx(fb, fb_call.a[1], fb_call.a[2])
               bit == pixel_bit(fb_call.a[1])
           IN  /\ \A i \in 1..Len(fb.buffer) : i # idx + 1 => fb.buffer[i] = fb_prev[i]
               /\ BitAnd(fb.buffer[idx + 1], BitNot(bit)) = BitAnd(fb_prev[idx + 1], BitNot(bit))
               /\ BitAnd(fb.buffer[idx + 1], bit) = IF fb_call.a[3] = 0 THEN 0 ELSE bit

\* The canvas main draws on: FrameBuffer::new(epd.width(), epd.height()).
PanelCanvas == FrameBuffer_new(width, height)

\* The number of bytes each transaction of a wire log that opens with
\* opcode c carries.
PayloadSizes(log, c) == {Len(d) : d \in Transactions(log, c)}

CanvasFitsPanel ==
    /\ Len(buffer(PanelCanvas)) = buffer_size
    /\ buffer_size = height * ((width + 7) \div 8)
    /\ \A c \in {\h24, \h26} :
           /\ PayloadSizes(Wire(display(buffer(PanelCanvas))), c) = {buffer_size}
           /\ PayloadSizes(Wire(clear), c) = {buffer_size}

\* C30: the canvas built from the controller's width and height has
\* buffer_size() bytes, which is height * ceil(width/8), the length of the
\* white buffer of clear(); clear() is seen to send that many bytes to each
\* RAM plane, and display sends to each plane as many bytes as its argument
\* has, so display(fb.buffer()) sends what clear() sends.
C30_PayloadSizesAgree ==
    /\ CanvasFitsPanel
    /\ Returned("clear") =>
           \A c \in {\h24, \h26} : PayloadSizes(sink, c) = {Len(buffer(PanelCanvas))}
    /\ Returned("display") =>
           \A c \in {\h24, \h26} : PayloadSizes(sink, c) = {Len(image)}

\* main's clear has returned after 15000 bytes to each RAM plane.
C30_Witness ==
    /\ caller = "main"
    /\ Returned("clear")
    /\ PayloadSizes(sink, \h24) = {15000}
    /\ PayloadSizes(sink, \h26) = {15000}
    /\ Len(buffer(PanelCanvas)) = 15000

----------------------------------------------------------------------------
(* Frame effects of drawing. *)

Drawing == {"pixel", "hline", "vline", "line", "rect", "fill_rect", "text"}

\* The color argument of the latest call: the last one.
CallColor == fb_call.a[Len(fb_call.a)]

\* C31: drawing is monotone in the color.  After a drawing call with color 0
\* no bit of the buffer has gone from cleared to set, after one with another
\* color none has gone from set to cleared; and text leaves as it was every
\* pixel of a glyph cell for which the bit text tests in the glyph row is
\* clear.
C31_DrawingMonotone ==
    /\ fb_call.f \in Drawing =>
           /\ Len(fb.buffer) = Len(fb_prev)
           /\ \A i \in 1..Len(fb.buffer), b \in 0..7 :
                  IF CallColor = 0
                  THEN TestBit(fb.buffer[i], b) <= TestBit(fb_prev[i], b)
                  ELSE TestBit(fb.buffer[i], b) >= TestBit(fb_prev[i], b)
    /\ Called("text") =>
           LET s == fb_call.a[1]
               x == fb_call.a[2]
               y == fb_call.a[3]
           IN  \A j \in 1..Len(s), p \in InBounds :
                   /\ InCell(s, x, y, j, p[1], p[2])
                   /\ TestBit(GlyphRow(s[j], p[2] - y), p[1] - (x + 8 * (j - 1))) = 0
                   => PixelBit(fb.buffer, p[1], p[2]) = PixelBit(fb_prev, p[1], p[2])

\* text("A", 1, 0, WHITE) on a canvas filled black: the two pixels of the
\* glyph row turn white and the black background of the cell stays.
C31_Witness ==
    /\ Called("text")
    /\ fb_call.a = << <<65>>, 1, 0, 1 >>
    /\ fb_prev = <<\h00>>
    /\ fb.buffer = <<\h41>>

----------------------------------------------------------------------------
(* FrameBuffer::line, one loop iteration per step. *)

\* End points of the lines drawn on the 8x8 canvas.
LineEndXs == {-1, 0, 2, 5}
LineEndYs == {-1, 0, 3}

InitLine ==
    /\ caller = "client"
    /\ op = "idle"
    /\ ip = 0
    /\ image = <<>>
    /\ hist = <<>>
    /\ sink = <<>>
    /\ cs_pin = 0
    /\ dc_pin = 0
    /\ reset_pin = 0
    /\ busy_pin = 0
    /\ fb = FrameBuffer_new(8, 8)
    /\ fb_call = [f |-> "new", a |-> <<8, 8>>, n |-> 0]
    /\ fb_prev = <<>>
    /\ overflow_checks \in BOOLEAN
    /\ ProgIdle

\* The locals of line that the loop does not change.
line_dx(a) == Abs(a[3] - a[1])
line_dy(a) == -Abs(a[4] - a[2])
line_sx(a) == IF a[1] < a[3] THEN 1 ELSE -1
line_sy(a) == IF a[2] < a[4] THEN 1 ELSE -1

\* line(x0, y0, x1, y1, color) is called and reaches the head of its loop.
LineCall ==
    /\ line_at.st = "idle"
    /\ \E x0 \in LineEndXs, y0 \in LineEndYs, x1 \in LineEndXs, y1 \in LineEndYs,
          color \in BlackWhite :
          LET a == <<x0, y0, x1, y1, color>>
          IN  /\ line_at' = [st |-> "loop", a |-> a, x |-> x0, y |-> y0,
                             err |-> line_dx(a) + line_dy(a)]
              /\ fb_call' = [f |-> "line", a |-> a, n |-> fb_call.n + 1]
    /\ fb_prev' = fb.buffer
    /\ UNCHANGED <<fb, overflow_checks, cal, sync, boot>>
    /\ UNCHANGED epd_vars

\* Variant of the loop body: the end test comes ahead of the plot.
LineStep_open_end ==
    /\ line_at.st = "loop"
    /\ LET a == line_at.a
           x == line_at.x
           y == line_at.y
           e2 == 2 * line_at.err
           stepx == e2 >= line_dy(a)
           stepy == e2 <= line_dx(a)
       IN  IF x = a[3] /\ y = a[4]
           THEN /\ line_at' = [line_at EXCEPT !.st = "done"]
                /\ UNCHANGED fb
           ELSE /\ fb' = IF x >= 0 /\ y >= 0 THEN pixel(fb, x, y, a[5]) ELSE fb
                /\ line_at' = [line_at EXCEPT
                       !.x = IF stepx THEN x + line_sx(a) ELSE x,
                       !.y = IF stepy THEN y + line_sy(a) ELSE y,
                       !.err = line_at.err + (IF stepx THEN line_dy(a) ELSE 0)
                                           + (IF stepy THEN line_dx(a) ELSE 0)]
    /\ UNCHANGED <<fb_call, fb_prev, overflow_checks, cal, sync, boot>>
    /\ UNCHANGED epd_vars

\* One iteration of the loop: plot (x, y) unless a coordinate is negative,
\* break at the end point, otherwise advance x, y and err.
LineStep ==
    /\ line_at.st = "loop"
    /\ LET a == line_at.a
           x == line_at.x
           y == line_at.y
           e2 == 2 * line_at.err
           stepx == e2 >= line_dy(a)
           stepy == e2 <= line_dx(a)
       IN  /\ fb' = IF x >= 0 /\ y >= 0 THEN pixel(fb, x, y, a[5]) ELSE fb
           /\ IF x = a[3] /\ y = a[4]
              THEN line_at' = [line_at EXCEPT !.st = "done"]
              ELSE line_at' = [line_at EXCEPT
                       !.x = IF stepx THEN x + line_sx(a) ELSE x,
                       !.y = IF stepy THEN y + line_sy(a) ELSE y,
                       !.err = line_at.err + (IF stepx THEN line_dy(a) ELSE 0)
                                           + (IF stepy THEN line_dx(a) ELSE 0)]
    /\ UNCHANGED <<fb_call, fb_prev, overflow_checks, cal, sync, boot>>
    /\ UNCHANGED epd_vars

NextLine ==
    \/ LineCall
    \/ LineStep

\* The loop is the only thing the thread does until it breaks.
SpecLine == InitLine /\ [][NextLine]_vars /\ WF_vars(LineStep)

Min(m, n) == IF m <= n THEN m ELSE n
Max(m, n) == IF m >= n THEN m ELSE n

LineRunning == line_at.st \in {"loop", "done"}

\* The point the loop is at lies in the bounding box of the end points; when
\* the loop has ended it is at (x1, y1), and each end point that is on the
\* canvas has the color of the line.
LineInBox ==
    LineRunning =>
        LET a == line_at.a
        IN  /\ Min(a[1], a[3]) <= line_at.x /\ line_at.x <= Max(a[1], a[3])
            /\ Min(a[2], a[4]) <= line_at.y /\ line_at.y <= Max(a[2], a[4])
            /\ line_at.st = "done" =>
                   /\ line_at.x = a[3] /\ line_at.y = a[4]
                   /\ \A p \in {<<a[1], a[2]>>, <<a[3], a[4]>>} \cap InBounds :
                          PixelBit(fb.buffer, p[1], p[2]) = ColorBit(a[5])

\* The loop starts at (x0, y0), plots there first, and moves by at most one
\* unit in each axis per iteration.
LineUnitSteps ==
    /\ line_at.st = "idle" /\ line_at'.st # "idle" =>
           /\ line_at'.x = line_at'.a[1] /\ line_at'.y = line_at'.a[2]
           /\ fb' = fb
    /\ LineRunning /\ fb' # fb =>
           /\ <<line_at.x, line_at.y>> \in InBounds
           /\ \A p \in InBounds \ {<<line_at.x, line_at.y>>} :
                  PixelBit(fb'.buffer, p[1], p[2]) = PixelBit(fb.buffer, p[1], p[2])
    /\ LineRunning =>
           /\ Abs(line_at'.x - line_at.x) <= 1
           /\ Abs(line_at'.y - line_at.y) <= 1

\* C32: line terminates for all end points of the range; it visits (x0, y0)
\* first and (x1, y1) last, moves by at most one unit in each axis per step,
\* never leaves the bounding box of the end points, and plots both end
\* points whenever they are on the canvas.
C32_LineWalk ==
    /\ []LineInBox
    /\ [][LineUnitSteps]_vars
    /\ (line_at.st = "loop" ~> line_at.st = "done")

\* The line from (5, 3) to (-1, 0) in black has ended off the canvas at
\* (-1, 0), with its first point (5, 3) plotted.
C32_Witness ==
    /\ line_at.st = "done"
    /\ line_at.a = <<5, 3, -1, 0, 0>>
    /\ line_at.x = -1 /\ line_at.y = 0
    /\ PixelBit(fb.buffer, 5, 3) = 0
    /\ PixelBit(fb.buffer, 0, 0) = 0

----------------------------------------------------------------------------
(* calendar.rs: calculate_free_time.  A time is an hour of today; an event's
   title plays no part in the computation and is left out. *)

MaxEvents == 2

WORK_START_HOUR == 9
WORK_END_HOUR == 17

\* Option<NaiveDateTime>, or the panic of the thread.
SomeTime(t) == [k |-> "some", v |-> t]
NoTime == [k |-> "none", v |-> 0]
TimePanic == [k |-> "panic", v |-> 0]

\* An Option<EventTime> by what parse_event_time makes of its strings.
\* date_time: absent, an RFC 3339 string, a string whose first 19 bytes are
\* a date and time without zone, another string of 19 bytes or more
\* ("junk"), or a string shorter than 19 bytes that is not RFC 3339
\* ("short").  date: absent, a valid date, or another string.
EventTime(present, dtk, t, dk) ==
    [present |-> present, date_time |-> [k |-> dtk, v |-> t], date |-> [k |-> dk]]

EventTimes ==
    { EventTime(FALSE, "absent", 0, "absent"),
      EventTime(TRUE, "rfc3339", 8, "absent"),
      EventTime(TRUE, "rfc3339", 11, "absent"),
      EventTime(TRUE, "rfc3339", 13, "absent"),
      EventTime(TRUE, "rfc3339", 18, "absent"),
      EventTime(TRUE, "naive", 10, "absent"),
      EventTime(TRUE, "junk", 0, "junk"),
      EventTime(TRUE, "short", 0, "absent"),
      EventTime(TRUE, "absent", 0, "day") }

Events == [start : EventTimes, end : EventTimes]

EventLists == UNION {[1..n -> Events] : n \in 0..MaxEvents}

parse_event_time(time) ==
    IF ~time.present THEN NoTime
    ELSE IF time.date_time.k = "rfc3339" THEN SomeTime(time.date_time.v)
    ELSE IF time.date_time.k = "short" THEN TimePanic   \* &dt_str[..19]
    ELSE IF time.date_time.k = "naive" THEN SomeTime(time.date_time.v)
    ELSE IF time.date.k = "day" THEN SomeTime(0)
    ELSE NoTime

work_start == WORK_START_HOUR
work_end == WORK_END_HOUR

\* The closure of filter_map: a busy period, nothing, or a panic.
busy_period(event) ==
    LET start0 == parse_event_time(event.start)
        end0 == IF start0.k = "some" THEN parse_event_time(event.end) ELSE start0
    IN  IF start0.k # "some" THEN [k |-> start0.k]
        ELSE IF end0.k # "some" THEN [k |-> end0.k]
        ELSE LET start == Max(start0.v, work_start)
                 end == Min(end0.v, work_end)
             IN  IF start < end THEN [k |-> "some", start |-> start, end |-> end]
                 ELSE [k |-> "none"]

\* events.iter().filter_map(..).collect() from the i-th event on.
RECURSIVE collect_busy(_, _)
collect_busy(events, i) ==
    IF i > Len(events) THEN [panicked |-> FALSE, v |-> <<>>]
    ELSE LET b == busy_period(events[i])
         IN  IF b.k = "panic" THEN [panicked |-> TRUE, v |-> <<>>]
             ELSE LET rest == collect_busy(events, i + 1)
                  IN  IF rest.panicked THEN rest
                      ELSE IF b.k = "none" THEN rest
                      ELSE [rest EXCEPT !.v = <<[start |-> b.start, end |-> b.end]>> \o rest.v]

\* sort_by_key(|p| p.start): a stable sort.
RECURSIVE insert_by_start(_, _)
insert_by_start(sorted, p) ==
    IF sorted = <<>> THEN <<p>>
    ELSE IF Head(sorted).start <= p.start
    THEN <<Head(sorted)>> \o insert_by_start(Tail(sorted), p)
    ELSE <<p>> \o sorted

RECURSIVE sort_by_start(_)
sort_by_start(periods) ==
    IF periods = <<>> THEN <<>>
    ELSE insert_by_start(sort_by_start(SubSeq(periods, 1, Len(periods) - 1)),
                         periods[Len(periods)])

\* for period in &busy_periods { ... } from the i-th period on.
RECURSIVE free_slots_loop(_, _, _, _)
free_slots_loop(busy_periods, i, current_time, free_slots) ==
    IF i > Len(busy_periods)
    THEN IF current_time < work_end
         THEN Append(free_slots, [start |-> current_time, end |-> work_end])
         ELSE free_slots
    ELSE LET period == busy_periods[i]
             pushed == IF current_time < period.start
                       THEN Append(free_slots, [start |-> current_time, end |-> period.start])
                       ELSE free_slots
         IN  free_slots_loop(busy_periods, i + 1, Max(current_time, period.end), pushed)

calculate_free_time(events) ==
    LET collected == collect_busy(events, 1)
        busy_periods == sort_by_start(collected.v)
    IN  IF collected.panicked THEN [st |-> "panic", events |-> events]
        ELSE [st |-> "returned", events |-> events,
              busy |-> busy_periods,
              free |-> free_slots_loop(busy_periods, 1, work_start, <<>>)]

\* calculate_free_time is called with a list of events.
InitCal ==
    /\ caller = "client"
    /\ op = "idle"
    /\ ip = 0
    /\ image = <<>>
    /\ hist = <<>>
    /\ sink = <<>>
    /\ cs_pin = 0
    /\ dc_pin = 0
    /\ reset_pin = 0
    /\ busy_pin = 0
    /\ fb = NoFrameBuffer
    /\ fb_call = NoCall
    /\ fb_prev = <<>>
    /\ overflow_checks = TRUE
    /\ line_at = NoLine
    /\ cal \in {[st |-> "called", events |-> es] : es \in EventLists}
    /\ sync = NoSync
    /\ boot = NoBoot

\* The call returns its pair, or the thread panics.
Calculate ==
    /\ cal.st = "called"
    /\ cal' = calculate_free_time(cal.events)
    /\ UNCHANGED <<line_at, sync, boot>>
    /\ UNCHANGED fb_vars
    /\ UNCHANGED epd_vars

NextCal == Calculate

SpecCal == InitCal /\ [][NextCal]_vars

\* The hours [t, t+1) an interval with whole-hour ends covers.
Hours(p) == {t \in 0..23 : p.start <= t /\ t < p.end}

WorkingWindow == {t \in 0..23 : work_start <= t /\ t < work_end}

SortedByStart(ps) == \A i \in 1..(Len(ps) - 1) : ps[i].start <= ps[i + 1].start

\* What C33 says of a returned pair.
FreeTimePartition ==
    LET busy == cal.busy
        free == cal.free
    IN  /\ \A i \in 1..Len(busy) :
               /\ work_start <= busy[i].start /\ busy[i].end <= work_end
               /\ busy[i].start < busy[i].end
        /\ SortedByStart(busy)
        /\ \A i \in 1..Len(free) :
               /\ free[i].start < free[i].end
               /\ work_start <= free[i].start /\ free[i].end <= work_end
               /\ \A j \in 1..Len(busy) : Hours(free[i]) \cap Hours(busy[j]) = {}
        /\ \A i \in 1..(Len(free) - 1) : free[i].end <= free[i + 1].start
        /\ WorkingWindow = UNION ({Hours(busy[j]) : j \in 1..Len(busy)}
                                  \cup {Hours(free[i]) : i \in 1..Len(free)})

\* C33: for every list of events calculate_free_time returns, and what it
\* returns is the busy periods clipped to the working window and sorted by
\* start, and free slots that are non-empty, sorted, pairwise disjoint, inside
\* the window and disjoint from every busy period, which together with the
\* busy periods cover the window.
C33_FreeTimePartition ==
    cal.st \notin {"idle", "called"} =>
        /\ cal.st = "returned"
        /\ FreeTimePartition

----------------------------------------------------------------------------
(* main.rs: sync_time. *)

\* What get_sync_status() can report.
SyncStatuses == {"Reset", "InProgress", "Completed"}

\* sync_time has set the time zone and is about to create the SNTP client.
InitSync ==
    /\ caller = "client"
    /\ op = "idle"
    /\ ip = 0
    /\ image = <<>>
    /\ hist = <<>>
    /\ sink = <<>>
    /\ cs_pin = 0
    /\ dc_pin = 0
    /\ reset_pin = 0
    /\ busy_pin = 0
    /\ fb = NoFrameBuffer
    /\ fb_call = NoCall
    /\ fb_prev = <<>>
    /\ overflow_checks = TRUE
    /\ line_at = NoLine
    /\ cal = NoCal
    /\ sync = [st |-> "new", retries |-> 0, sleeps |-> 0, status |-> "none", result |-> "none"]
    /\ boot = NoBoot

SyncRest ==
    /\ UNCHANGED <<line_at, cal, boot>>
    /\ UNCHANGED fb_vars
    /\ UNCHANGED epd_vars

\* let sntp = EspSntp::new_default()?;  let mut retries = 0;
SntpNew ==
    /\ sync.st = "new"
    /\ \/ sync' = [sync EXCEPT !.st = "while"]
       \/ sync' = [sync EXCEPT !.st = "returned", !.result = "Err(EspError)"]
    /\ SyncRest

\* Variant of the loop head: the timeout test is `retries > 30`.
SyncWhile_one_more ==
    /\ sync.st = "while"
    /\ \E status \in SyncStatuses :
          sync' = IF status = "Completed"
                  THEN [sync EXCEPT !.st = "returned", !.status = status, !.result = "Ok"]
                  ELSE IF sync.retries > 30
                  THEN [sync EXCEPT !.st = "returned", !.status = status,
                                    !.result = "Err(SNTP sync timeout)"]
                  ELSE [sync EXCEPT !.st = "sleep", !.status = status]
    /\ SyncRest

\* while sntp.get_sync_status() != Completed { if retries >= 30 { bail!(..) } ..
\* and, when the loop is left, Ok(()).
SyncWhile ==
    /\ sync.st = "while"
    /\ \E status \in SyncStatuses :
          sync' = IF status = "Completed"
                  THEN [sync EXCEPT !.st = "returned", !.status = status, !.result = "Ok"]
                  ELSE IF sync.retries >= 30
                  THEN [sync EXCEPT !.st = "returned", !.status = status,
                                    !.result = "Err(SNTP sync timeout)"]
                  ELSE [sync EXCEPT !.st = "sleep", !.status = status]
    /\ SyncRest

\* std::thread::sleep(Duration::from_secs(1)); retries += 1;
SyncSleep ==
    /\ sync.st = "sleep"
    /\ sync' = [sync EXCEPT !.st = "while", !.sleeps = @ + 1, !.retries = @ + 1]
    /\ SyncRest

NextSync ==
    \/ SntpNew
    \/ SyncWhile
    \/ SyncSleep

\* The thread runs until sync_time returns.
SpecSync == InitSync /\ [][NextSync]_vars /\ WF_vars(NextSync)

SyncReturned == sync.st = "returned"

SyncOk ==
    sync.result = "Ok" /\ sync.status = "Completed"

SyncTimedOut ==
    sync.result = "Err(SNTP sync timeout)" /\ sync.status # "Completed" /\ sync.sleeps = 30

\* Success exactly when the status was read as Completed, and then at once;
\* never more than 30 sleeps.
SyncBounded ==
    /\ sync.sleeps <= 30
    /\ sync.status = "Completed" => SyncReturned /\ sync.result = "Ok"

\* C34 as claimed: sync_time always returns, with success as soon as the
\* status is seen Completed and otherwise with the SNTP sync timeout error
\* after exactly 30 one-second sleeps.
C34_OkOrTimeout ==
    /\ [](SyncBounded /\ (SyncReturned => SyncOk \/ SyncTimedOut))
    /\ <>SyncReturned

\* C34 (amended): sync_time always returns: with the error of
\* EspSntp::new_default if the SNTP client cannot be created, before any
\* status is read or any sleep taken; otherwise with success as soon as the
\* status is seen Completed, and otherwise with the SNTP sync timeout error
\* after exactly 30 one-second sleeps, never a 31st.
C34_OkOrTimeoutOrSntpError ==
    /\ [](/\ SyncBounded
          /\ SyncReturned =>
                 \/ SyncOk
                 \/ SyncTimedOut
                 \/ /\ sync.result = "Err(EspError)"
                    /\ sync.sleeps = 0 /\ sync.status = "none")
    /\ <>SyncReturned

\* The status was never Completed: timeout after 30 sleeps.
C34_Witness ==
    /\ SyncReturned
    /\ sync.result = "Err(SNTP sync timeout)"
    /\ sync.sleeps = 30
    /\ sync.retries = 30

----------------------------------------------------------------------------
(* main.rs: main.  Data acquisition, then the display cycle on the panel. *)

\* The fallible calls of main ahead of set_up_display, in program order.
BootStages ==
    << "Peripherals::take", "EspSystemEventLoop::take", "EspDefaultNvsPartition::take",
       "wifi_up", "get_ip_info", "sync_time", "fetch_calendar_events",
       "fetch_notion_tasks", "render_str", "ask_gemini" >>

StageIndex(st) == CHOOSE i \in 1..Len(BootStages) : BootStages[i] = st

\* The stage after st; after the last one main turns to the panel.
AfterStage(st) ==
    IF StageIndex(st) = Len(BootStages) THEN "panel" ELSE BootStages[StageIndex(st) + 1]

InitMain ==
    /\ caller = "main"
    /\ op = "idle"
    /\ ip = 0
    /\ image = <<>>
    /\ hist = <<>>
    /\ sink = <<>>
    /\ cs_pin = 0
    /\ dc_pin = 0
    /\ reset_pin = 0
    /\ busy_pin = 0
    /\ fb = NoFrameBuffer
    /\ fb_call = NoCall
    /\ fb_prev = <<>>
    /\ overflow_checks = TRUE
    /\ line_at = NoLine
    /\ cal = NoCal
    /\ sync = NoSync
    /\ boot = [st |-> BootStages[1], failed |-> "none", result |-> "none"]

BootRest ==
    /\ UNCHANGED <<line_at, cal, sync>>
    /\ UNCHANGED fb_vars
    /\ UNCHANGED epd_vars

\* The call at this stage returns Ok and main goes on.
StageOk ==
    /\ boot.st \in {BootStages[i] : i \in 1..Len(BootStages)}
    /\ boot' = [boot EXCEPT !.st = AfterStage(boot.st)]
    /\ BootRest

\* The call at this stage returns Err: `?` makes main return it
\* (Peripherals::take().unwrap() panics instead).
StageErr ==
    /\ boot.st \in {BootStages[i] : i \in 1..Len(BootStages)}
    /\ boot' = IF boot.st = "Peripherals::take"
               THEN [st |-> "panic", failed |-> boot.st, result |-> "none"]
               ELSE [st |-> "returned", failed |-> boot.st, result |-> "Err"]
    /\ BootRest

\* fetch_calendar_events passes the events it fetched to
\* calculate_free_time, which panics on some of them.
CalendarPanic ==
    /\ boot.st = "fetch_calendar_events"
    /\ \E es \in EventLists : calculate_free_time(es).st = "panic"
    /\ boot' = [st |-> "panic", failed |-> boot.st, result |-> "none"]
    /\ BootRest

\* set_up_display, init, clear, display, sleep: the next call on the panel.
PanelCall ==
    /\ boot.st = "panel"
    /\ \E o \in {MainOps[i] : i \in 1..Len(MainOps)}, img \in Images : Call(o, img)

\* sleep has returned: Ok(()).
MainReturn ==
    /\ boot.st = "panel"
    /\ op = "idle"
    /\ hist = MainOps
    /\ boot' = [boot EXCEPT !.st = "returned", !.result = "Ok"]
    /\ BootRest

NextMain ==
    \/ StageOk
    \/ StageErr
    \/ CalendarPanic
    \/ PanelCall
    \/ SetPinStep
    \/ SpiStep
    \/ DelayStep
    \/ PollStep
    \/ Return
    \/ HwFault
    \/ MainReturn

SpecMain == InitMain /\ [][NextMain]_vars

\* Nothing has been done to the panel: no method called, nothing on the
\* wires, no line driven.
PanelUntouched ==
    /\ hist = <<>>
    /\ sink = <<>>
    /\ op = "idle"
    /\ cs_pin = 0 /\ dc_pin = 0 /\ reset_pin = 0

\* Wi-Fi bring-up, time sync, calendar fetch, Notion fetch, prompt rendering
\* and the Gemini request.
Acquisition ==
    {"wifi_up", "get_ip_info", "sync_time", "fetch_calendar_events",
     "fetch_notion_tasks", "render_str", "ask_gemini"}

\* C35: the panel is touched only after all data acquisition has succeeded.
\* If Wi-Fi bring-up, time sync, calendar fetch, Notion fetch, prompt
\* rendering or the Gemini request fails, main returns that error and the
\* panel is untouched: no bus transaction, reset pulse or refresh; and
\* whenever the panel has been touched, no stage has failed.
C35_PanelOnlyAfterAcquisition ==
    /\ boot.failed \in Acquisition =>
           /\ boot.st = "returned" /\ boot.result = "Err"
           /\ PanelUntouched
    /\ ~PanelUntouched => boot.failed = "none" /\ boot.st \in {"panel", "returned"}
====
